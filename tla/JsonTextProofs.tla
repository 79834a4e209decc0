--------------------------- MODULE JsonTextProofs ---------------------------
(* Proofs about JsonText, for texts of any length, values nested to any depth  *)
(* and integers of any width: what the lexer and the serializer give, and that *)
(* the lexer reads back what the serializer wrote for a scalar.                *)
(*                                                                             *)
(* Both are defined by recursion, so the first part brings induction on the    *)
(* naturals, in a form without operator parameters.                            *)
EXTENDS JsonText, SequenceTheorems, WellFoundedInduction, TLAPS

-----------------------------------------------------------------------------
(* Induction and recursion.                                                   *)

\* A set of naturals that is not empty has a least element.
LEMMA LeastNatural ==
  ASSUME NEW T \in SUBSET Nat, T # {}
  PROVE  \E x \in T : \A y \in T : x <= y
<1> DEFINE R == OpToRel(<, Nat)
<1>1. IsWellFoundedOn(R, Nat)
  BY NatLessThanWellFounded
<1>2. \A x, y \in Nat : y < x => <<y, x>> \in R
  BY DEF OpToRel
<1> HIDE DEF R
<1>3. PICK x \in T : \A y \in T : ~(<<y, x>> \in R)
  BY <1>1, WFMin
<1>4. \A y \in T : ~(y < x)
  BY <1>2, <1>3
<1> QED BY <1>3, <1>4

\* What holds of 0, and of n + 1 if of n, holds of all naturals.
LEMMA Induction ==
  ASSUME NEW S, 0 \in S, \A n \in Nat : n \in S => n + 1 \in S
  PROVE  \A n \in Nat : n \in S
<1> DEFINE T == {n \in Nat : n \notin S}
<1> SUFFICES ASSUME T # {} PROVE FALSE
  OBVIOUS
<1>1. PICK x \in T : \A y \in T : x <= y
  BY LeastNatural
<1>2. x # 0 /\ x - 1 \in Nat /\ x - 1 \notin T
  BY <1>1
<1> QED BY <1>1, <1>2

\* A function of the naturals may be defined by its first value and by what each
\* value makes of the one before it.
Steps(S) == [Nat -> [S -> S]]

\* f is what step makes of a, one application after another.
Recurs(f, S, a, step) == f \in [Nat -> S] /\ f[0] = a /\ \A k \in Nat : f[k + 1] = step[k][f[k]]

\* Such a function exists.
LEMMA Recursion ==
  ASSUME NEW S, NEW a \in S, NEW step \in Steps(S)
  PROVE  \E f : Recurs(f, S, a, step)
<1>1. step \in [Nat -> [S -> S]]
  BY DEF Steps
<1> DEFINE Good(n, g) == /\ g \in [0..n -> S] /\ g[0] = a
                         /\ \A k \in 0..(n - 1) : g[k + 1] = step[k][g[k]]
           Has == {n \in Nat : \E g : Good(n, g)}
<1>2. 0 \in Has
  <2> DEFINE g == [i \in 0..0 |-> a]
  <2>1. g \in [0..0 -> S] /\ g[0] = a /\ 0..(0 - 1) = {}
    OBVIOUS
  <2> QED BY <2>1
<1>3. ASSUME NEW n \in Nat, n \in Has PROVE n + 1 \in Has
  <2>1. PICK g : Good(n, g)
    BY <1>3
  <2>2. step[n] \in [S -> S]
    BY <1>1
  <2> DEFINE h == [i \in 0..(n + 1) |-> IF i = n + 1 THEN step[n][g[n]] ELSE g[i]]
  <2>3. g[n] \in S /\ step[n][g[n]] \in S
    BY <2>2, <2>1
  <2>4. ASSUME NEW i \in 0..(n + 1) PROVE h[i] \in S
    <3>1. CASE i = n + 1
      BY <2>3, <3>1
    <3>2. CASE i # n + 1
      <4>1. i \in 0..n
        BY <3>2
      <4> QED BY <2>1, <3>2, <4>1
    <3> QED BY <3>1, <3>2
  <2>5. h \in [0..(n + 1) -> S]
    BY <2>4
  <2>6. h[0] = a
    BY <2>1
  <2>7. ASSUME NEW k \in 0..((n + 1) - 1) PROVE h[k + 1] = step[k][h[k]]
    <3>1. CASE k = n
      BY <3>1
    <3>2. CASE k # n
      <4>1. k \in 0..(n - 1) /\ k + 1 \in 0..(n + 1) /\ k + 1 # n + 1 /\ k \in 0..(n + 1) /\ k # n + 1
        BY <3>2
      <4>2. h[k + 1] = g[k + 1] /\ h[k] = g[k]
        BY <4>1
      <4> QED BY <2>1, <4>1, <4>2
    <3> QED BY <3>1, <3>2
  <2>8. Good(n + 1, h)
    BY <2>5, <2>6, <2>7
  <2> HIDE DEF h, Good
  <2> QED BY <2>8
<1>4. \A n \in Nat : n \in Has
  <2> HIDE DEF Has
  <2> QED BY <1>2, <1>3, Induction
<1> DEFINE G == [n \in Nat |-> CHOOSE g : Good(n, g)]
<1>5. ASSUME NEW n \in Nat PROVE Good(n, G[n])
  <2>1. \E g : Good(n, g)
    BY <1>4
  <2> HIDE DEF Good
  <2> QED BY <2>1
<1> HIDE DEF G
<1>6. ASSUME NEW m \in Nat, NEW n \in Nat, NEW k \in Nat, k <= m, k <= n
      PROVE  G[m][k] = G[n][k]
  <2> DEFINE Same == {i \in Nat : i <= m /\ i <= n => G[m][i] = G[n][i]}
  <2>1. 0 \in Same
    BY <1>5
  <2>2. ASSUME NEW i \in Nat, i \in Same PROVE i + 1 \in Same
    <3> SUFFICES ASSUME i + 1 <= m, i + 1 <= n PROVE G[m][i + 1] = G[n][i + 1]
      OBVIOUS
    <3>1. i \in 0..(m - 1) /\ i \in 0..(n - 1) /\ i <= m /\ i <= n
      OBVIOUS
    <3>2. G[m][i + 1] = step[i][G[m][i]]
      BY <1>5, <3>1
    <3>3. G[n][i + 1] = step[i][G[n][i]]
      BY <1>5, <3>1
    <3>4. G[m][i] = G[n][i]
      BY <2>2, <3>1
    <3> QED BY <3>2, <3>3, <3>4
  <2>3. \A i \in Nat : i \in Same
    <3> HIDE DEF Same
    <3> QED BY <2>1, <2>2, Induction
  <2> QED BY <1>6, <2>3
<1> DEFINE f == [n \in Nat |-> G[n][n]]
<1>7. f \in [Nat -> S] /\ f[0] = a
  BY <1>5
<1>8. ASSUME NEW k \in Nat PROVE f[k + 1] = step[k][f[k]]
  <2>1. G[k][k] = G[k + 1][k]
    BY <1>6
  <2>2. k \in 0..((k + 1) - 1)
    OBVIOUS
  <2>3. G[k + 1][k + 1] = step[k][G[k + 1][k]]
    BY <1>5, <2>2
  <2> QED BY <2>1, <2>3
<1>9. Recurs(f, S, a, step)
  BY <1>7, <1>8 DEF Recurs
<1> HIDE DEF f
<1> QED BY <1>9

\* Of the numbers from lo to hi that are in P, one is the first.
IsFirst(k, lo, hi, P) == k \in lo..hi /\ k \in P /\ \A j \in lo..(k - 1) : j \notin P

\* A set of naturals with a member between two bounds has a first one there.
LEMMA First ==
  ASSUME NEW lo \in Nat, NEW hi \in Nat, NEW P, \E m \in lo..hi : m \in P
  PROVE  \E k : IsFirst(k, lo, hi, P)
<1> DEFINE T == {k \in lo..hi : k \in P}
<1>1. T \in SUBSET Nat /\ T # {}
  OBVIOUS
<1>2. PICK k \in T : \A j \in T : k <= j
  <2> HIDE DEF T
  <2> QED BY <1>1, LeastNatural
<1>3. ASSUME NEW j \in lo..(k - 1) PROVE j \notin P
  BY <1>2
<1> QED BY <1>2, <1>3 DEF IsFirst

\* So may a function on an interval.
RecursFrom(f, S, lo, hi, a, step) ==
  f \in [lo..hi -> S] /\ f = [k \in lo..hi |-> IF k = lo THEN a ELSE step[k][f[k - 1]]]

\* A recursion over an interval has a solution.
LEMMA IntervalRecursion ==
  ASSUME NEW S, NEW lo \in Nat, NEW hi \in Nat, NEW a \in S, NEW step \in Steps(S)
  PROVE  \E f : RecursFrom(f, S, lo, hi, a, step)
<1> DEFINE next == [k \in Nat |-> step[lo + k + 1]]
<1>1. next \in Steps(S)
  BY DEF Steps
<1>2. \E g : Recurs(g, S, a, next)
  <2> HIDE DEF next
  <2> QED BY <1>1, Recursion
<1>3. PICK g \in [Nat -> S] : g[0] = a /\ \A k \in Nat : g[k + 1] = next[k][g[k]]
  <2> HIDE DEF next
  <2> QED BY <1>2 DEF Recurs
<1> DEFINE f == [k \in lo..hi |-> g[k - lo]]
<1>4. f \in [lo..hi -> S]
  OBVIOUS
<1>5. ASSUME NEW k \in lo..hi PROVE f[k] = IF k = lo THEN a ELSE step[k][f[k - 1]]
  <2>1. CASE k = lo
    BY <1>3, <2>1
  <2>2. CASE k # lo
    <3>1. PICK n \in Nat : k = lo + n + 1 /\ k - lo = n + 1 /\ (k - 1) - lo = n
      <4>1. k - lo - 1 \in Nat /\ k = lo + (k - lo - 1) + 1
        BY <2>2
      <4> QED BY <4>1
    <3>2. k - 1 \in lo..hi
      BY <2>2
    <3>3. f[k] = g[n + 1] /\ f[k - 1] = g[n]
      BY <3>1, <3>2
    <3>4. g[n + 1] = step[lo + n + 1][g[n]]
      BY <1>3
    <3> QED BY <2>2, <3>1, <3>3, <3>4
  <2> QED BY <2>1, <2>2
<1>6. f = [k \in lo..hi |-> IF k = lo THEN a ELSE step[k][f[k - 1]]]
  BY <1>5
<1>7. RecursFrom(f, S, lo, hi, a, step)
  BY <1>4, <1>6 DEF RecursFrom
<1> HIDE DEF f
<1> QED BY <1>7

\* A function on an interval has its values in S if the first one is, and each
\* one if the one before it is.
LEMMA IntervalValues ==
  ASSUME NEW S, NEW lo \in Nat, NEW hi \in Nat, NEW f,
         f = [k \in lo..hi |-> f[k]],
         lo <= hi => f[lo] \in S,
         \A k \in (lo + 1)..hi : f[k - 1] \in S => f[k] \in S
  PROVE  f \in [lo..hi -> S]
<1> DEFINE P == {n \in Nat : lo + n <= hi => f[lo + n] \in S}
<1>1. 0 \in P
  OBVIOUS
<1>2. ASSUME NEW n \in Nat, n \in P PROVE n + 1 \in P
  <2> SUFFICES ASSUME lo + (n + 1) <= hi PROVE f[lo + (n + 1)] \in S
    OBVIOUS
  <2>1. lo + n <= hi
    OBVIOUS
  <2>2. f[lo + n] \in S
    BY <1>2, <2>1
  <2>3. PICK k \in (lo + 1)..hi : k = lo + (n + 1) /\ k - 1 = lo + n
    OBVIOUS
  <2>4. f[k] \in S
    BY <2>2, <2>3
  <2> QED BY <2>3, <2>4
<1>3. \A n \in Nat : n \in P
  <2> HIDE DEF P
  <2> QED BY <1>1, <1>2, Induction
<1>4. ASSUME NEW k \in lo..hi PROVE f[k] \in S
  <2>1. PICK n \in Nat : lo + n = k
    <3>1. k - lo \in Nat /\ lo + (k - lo) = k
      OBVIOUS
    <3> QED BY <3>1
  <2>2. n \in P /\ lo + n <= hi
    <3>1. lo + n <= hi
      BY <2>1
    <3>2. n \in P
      BY <1>3
    <3> QED BY <3>1, <3>2
  <2>3. f[lo + n] \in S
    BY <2>2
  <2> QED BY <2>1, <2>3
<1> QED BY <1>4

-----------------------------------------------------------------------------
(* Sequences.                                                                 *)

\* A function on 1..n is a sequence.
LEMMA IsSeq ==
  ASSUME NEW S, NEW n \in Nat, NEW f \in [1..n -> S]
  PROVE  f \in Seq(S) /\ Len(f) = n
  OBVIOUS

\* The sequence of a single element.
LEMMA Single ==
  ASSUME NEW S, NEW e \in S
  PROVE  <<e>> \in Seq(S) /\ Len(<<e>>) = 1 /\ <<e>>[1] = e
  OBVIOUS

\* FlattenSeq joins the sequences one by one.
LEMMA FlattenSeqFacts ==
  ASSUME NEW S, NEW q \in Seq(Seq(S)), Len(q) # 0
  PROVE  \E f \in [1..Len(q) -> Seq(S)] :
            /\ FlattenSeq(q) = f[Len(q)] /\ f[1] = q[1]
            /\ \A i \in 2..Len(q) : f[i] = f[i - 1] \o q[i]
<1> DEFINE n == Len(q)
           flatten[i \in 1..n] == IF i = 1 THEN q[1] ELSE flatten[i - 1] \o q[i]
           step == [i \in Nat |-> [s \in Seq(S) |-> IF i \in 1..n THEN s \o q[i] ELSE s]]
<1>1. n \in Nat \ {0} /\ \A i \in 1..n : q[i] \in Seq(S)
  BY LenProperties, ElementOfSeq
<1>2. step \in Steps(Seq(S))
  <2>1. ASSUME NEW i \in Nat, NEW s \in Seq(S)
        PROVE  (IF i \in 1..n THEN s \o q[i] ELSE s) \in Seq(S)
    BY <1>1, ConcatProperties
  <2> QED BY <2>1 DEF Steps
<1> HIDE DEF n
<1>3. PICK f \in [1..n -> Seq(S)] :
            f = [i \in 1..n |-> IF i = 1 THEN q[1] ELSE step[i][f[i - 1]]]
  <2> HIDE DEF step
  <2>1. 1 \in Nat /\ n \in Nat
    BY <1>1
  <2>2. PICK a \in Seq(S) : a = q[1]
    BY <1>1
  <2>3. \E f : RecursFrom(f, Seq(S), 1, n, a, step)
    BY <1>2, <2>1, IntervalRecursion
  <2>4. PICK g : RecursFrom(g, Seq(S), 1, n, a, step)
    BY <2>3
  <2>5. g \in [1..n -> Seq(S)] /\ g = [i \in 1..n |-> IF i = 1 THEN a ELSE step[i][g[i - 1]]]
    BY <2>4 DEF RecursFrom
  <2>6. g = [i \in 1..n |-> IF i = 1 THEN q[1] ELSE step[i][g[i - 1]]]
    BY <2>2, <2>5, Zenon
  <2> QED BY <2>5, <2>6, Zenon
<1>4. ASSUME NEW i \in 1..n
      PROVE  f[i] = IF i = 1 THEN q[1] ELSE f[i - 1] \o q[i]
  <2>1. CASE i = 1
    BY <1>3, <2>1
  <2>2. CASE i # 1
    <3>1. i - 1 \in 1..n /\ i \in Nat
      BY <1>1, <2>2
    <3>2. f[i - 1] \in Seq(S)
      BY <1>3, <3>1
    <3>3. step[i][f[i - 1]] = f[i - 1] \o q[i]
      BY <3>1, <3>2
    <3> QED BY <1>3, <2>2, <3>3
  <2> QED BY <2>1, <2>2
<1>5. f = [i \in 1..n |-> IF i = 1 THEN q[1] ELSE f[i - 1] \o q[i]]
  BY <1>3, <1>4
<1>6. flatten = [i \in 1..n |-> IF i = 1 THEN q[1] ELSE flatten[i - 1] \o q[i]]
  BY <1>5
<1> HIDE DEF flatten
<1>7. flatten \in [1..n -> Seq(S)]
  <2>1. flatten = [i \in 1..n |-> flatten[i]]
    BY <1>6
  <2>2. 1 <= n => flatten[1] \in Seq(S)
    BY <1>1, <1>6
  <2>3. ASSUME NEW i \in (1 + 1)..n, flatten[i - 1] \in Seq(S) PROVE flatten[i] \in Seq(S)
    <3>1. i \in 1..n /\ i # 1
      BY <1>1
    <3>2. flatten[i] = flatten[i - 1] \o q[i]
      BY <1>6, <3>1
    <3> QED BY <1>1, <2>3, <3>1, <3>2, ConcatProperties
  <2>4. 1 \in Nat /\ n \in Nat
    BY <1>1
  <2> QED BY <2>1, <2>2, <2>3, <2>4, IntervalValues
<1>8. FlattenSeq(q) = flatten[n]
  BY <1>1 DEF FlattenSeq, flatten, n
<1>9. flatten[1] = q[1] /\ \A i \in 2..n : flatten[i] = flatten[i - 1] \o q[i]
  <2>1. \A i \in 2..n : i \in 1..n /\ i # 1
    BY <1>1
  <2>2. 1 \in 1..n
    BY <1>1
  <2> QED BY <1>6, <2>1, <2>2
<1> QED BY <1>7, <1>8, <1>9 DEF n

\* What it gives is a sequence, empty for none.
LEMMA FlattenSeqType ==
  ASSUME NEW S, NEW q \in Seq(Seq(S))
  PROVE  FlattenSeq(q) \in Seq(S)
<1>1. CASE Len(q) = 0
  <2>1. q = <<>>
    BY <1>1, EmptySeq
  <2> QED BY <1>1, <2>1, EmptySeq DEF FlattenSeq
<1>2. CASE Len(q) # 0
  <2>1. PICK f \in [1..Len(q) -> Seq(S)] : FlattenSeq(q) = f[Len(q)]
    BY <1>2, FlattenSeqFacts
  <2>2. Len(q) \in 1..Len(q)
    BY <1>2, LenProperties
  <2> QED BY <2>1, <2>2
<1> QED BY <1>1, <1>2

\* Keep takes elements of a sequence.
LEMMA KeepType ==
  ASSUME NEW S, NEW s \in Seq(S), NEW T
  PROVE  Keep(s, T) \in Seq(S \cap T)
<1> DEFINE q == [i \in 1..Len(s) |-> IF s[i] \in T THEN <<s[i]>> ELSE <<>>]
<1>1. Len(s) \in Nat /\ DOMAIN s = 1..Len(s)
  BY LenProperties
<1>2. ASSUME NEW i \in 1..Len(s) PROVE q[i] \in Seq(S \cap T)
  BY ElementOfSeq, EmptySeq, Single
<1>3. q \in Seq(Seq(S \cap T))
  BY <1>1, <1>2, IsSeq
<1>4. Keep(s, T) = FlattenSeq(q)
  BY <1>1 DEF Keep
<1> HIDE DEF q
<1> QED BY <1>3, <1>4, FlattenSeqType

-----------------------------------------------------------------------------
(* Numbers and their digits.                                                  *)

\* The characters of a text.  A literal is a string, but that is more than the
\* provers know of it.
Literals == {"0", "1", "2", "3", "4", "5", "6", "7", "8", "9", "+", "-", ".", "e", "n", "t", "f",
             "{", "}", "[", "]", ",", ":", "\"", "\\", "LF"}

\* Those, and the strings of one character that stand for the others.
Character == STRING \cup Literals
Texts == Seq(Character)

\* A digit is a character of a text.
LEMMA DigitCharsType ==
  ASSUME NEW j \in 1..10
  PROVE  DigitChars[j] \in Character
<1>1. /\ DigitChars[1] \in Literals /\ DigitChars[2] \in Literals /\ DigitChars[3] \in Literals
      /\ DigitChars[4] \in Literals /\ DigitChars[5] \in Literals /\ DigitChars[6] \in Literals
      /\ DigitChars[7] \in Literals /\ DigitChars[8] \in Literals /\ DigitChars[9] \in Literals
      /\ DigitChars[10] \in Literals
  BY DEF DigitChars, Literals
<1>2. j \in {1, 2, 3, 4, 5, 6, 7, 8, 9, 10}
  OBVIOUS
<1> HIDE DEF DigitChars
<1> QED BY <1>1, <1>2 DEF Character

\* What SelectInSeq gives is a place in the sequence, or 0.
LEMMA ValueOfType ==
  ASSUME NEW c
  PROVE  ValueOf(c) \in -1..9
<1> DEFINE I == {i \in 1..Len(DigitChars) : DigitChars[i] = c}
<1>1. Len(DigitChars) = 10
  BY DEF DigitChars
<1>2. ValueOf(c) = (IF I # {} THEN Min(I) ELSE 0) - 1
  BY DEF ValueOf, SelectInSeq
<1>3. CASE I = {}
  BY <1>2, <1>3
<1>4. CASE I # {}
  <2>1. I \in SUBSET Nat
    OBVIOUS
  <2>2. PICK i \in I : \A j \in I : i <= j
    <3> HIDE DEF I
    <3> QED BY <1>4, <2>1, LeastNatural
  <2>3. Min(I) \in 1..10
    BY <1>1, <2>2 DEF Min
  <2> QED BY <1>2, <1>4, <2>3
<1> QED BY <1>3, <1>4

\* Decimal, digit by digit.
LEMMA DecimalFacts ==
  ASSUME NEW S, NEW digits \in Seq(S)
  PROVE  \E f \in [0..Len(digits) -> Int] :
            /\ Decimal(digits) = f[Len(digits)] /\ f[0] = 0
            /\ \A k \in 1..Len(digits) : f[k] = 10 * f[k - 1] + ValueOf(digits[k])
<1> DEFINE L == Len(digits)
           n[k \in 0..L] == IF k = 0 THEN 0 ELSE 10 * n[k - 1] + ValueOf(digits[k])
           step == [k \in Nat |-> [x \in Int |-> 10 * x + ValueOf(digits[k])]]
<1>1. L \in Nat /\ 0 \in Nat /\ 0 \in Int
  BY LenProperties
<1>2. step \in Steps(Int)
  <2>1. ASSUME NEW k \in Nat, NEW x \in Int PROVE 10 * x + ValueOf(digits[k]) \in Int
    BY ValueOfType
  <2> QED BY <2>1 DEF Steps
<1> HIDE DEF L
<1>3. PICK f : RecursFrom(f, Int, 0, L, 0, step)
  <2> HIDE DEF step
  <2> QED BY <1>1, <1>2, IntervalRecursion
<1>4. f \in [0..L -> Int] /\ f = [k \in 0..L |-> IF k = 0 THEN 0 ELSE step[k][f[k - 1]]]
  BY <1>3 DEF RecursFrom
<1>5. ASSUME NEW k \in 1..L PROVE f[k] = 10 * f[k - 1] + ValueOf(digits[k])
  <2>1. k \in Nat /\ k \in 0..L /\ k # 0 /\ k - 1 \in 0..L
    BY <1>1
  <2>2. f[k] = step[k][f[k - 1]]
    BY <1>4, <2>1
  <2>3. f[k - 1] \in Int
    BY <1>4, <2>1
  <2> QED BY <2>1, <2>2, <2>3
<1>6. f = [k \in 0..L |-> IF k = 0 THEN 0 ELSE 10 * f[k - 1] + ValueOf(digits[k])]
  <2> HIDE DEF step
  <2>1. ASSUME NEW k \in 0..L, k # 0 PROVE f[k] = 10 * f[k - 1] + ValueOf(digits[k])
    <3>1. k \in 1..L
      BY <1>1, <2>1
    <3> QED BY <1>5, <3>1
  <2>2. 0 \in 0..L => f[0] = 0
    BY <1>4
  <2>3. f = [k \in 0..L |-> f[k]]
    BY <1>4
  <2> QED BY <2>1, <2>2, <2>3
<1>7. n = [k \in 0..L |-> IF k = 0 THEN 0 ELSE 10 * n[k - 1] + ValueOf(digits[k])]
  BY <1>6
<1> HIDE DEF n
<1>8. n[0] = 0 /\ \A k \in 1..L : n[k] = 10 * n[k - 1] + ValueOf(digits[k])
  <2>1. 0 \in 0..L /\ \A k \in 1..L : k \in 0..L /\ k # 0
    BY <1>1
  <2> QED BY <1>7, <2>1
<1>9. n \in [0..L -> Int]
  <2>1. n = [k \in 0..L |-> n[k]]
    BY <1>7
  <2>2. ASSUME NEW k \in (0 + 1)..L, n[k - 1] \in Int PROVE n[k] \in Int
    <3>1. k \in 1..L
      BY <1>1
    <3> QED BY <1>8, <2>2, <3>1, ValueOfType
  <2>3. 0 <= L => n[0] \in Int
    BY <1>8
  <2> QED BY <1>1, <2>1, <2>2, <2>3, IntervalValues
<1>10. Decimal(digits) = n[L]
  BY DEF Decimal, n, L
<1> QED BY <1>8, <1>9, <1>10 DEF L

\* What a literal of digits stands for is an integer.
LEMMA DecimalType ==
  ASSUME NEW S, NEW digits \in Seq(S)
  PROVE  Decimal(digits) \in Int
<1>1. PICK f \in [0..Len(digits) -> Int] : Decimal(digits) = f[Len(digits)]
  BY DecimalFacts
<1>2. Len(digits) \in 0..Len(digits)
  BY LenProperties
<1> QED BY <1>1, <1>2

\* A natural number has digits.
LEMMA DigitsOfType ==
  ASSUME NEW n \in Nat
  PROVE  DigitsOf(n) \in Texts /\ DigitsOf(n) # <<>>
<1> DEFINE rest[k \in 0..n] == IF k = 0 THEN n ELSE rest[k - 1] \div 10
           step == [k \in Nat |-> [x \in Nat |-> x \div 10]]
<1>1. step \in Steps(Nat) /\ 0 \in Nat
  BY DEF Steps
<1>2. PICK f : RecursFrom(f, Nat, 0, n, n, step)
  <2> HIDE DEF step
  <2> QED BY <1>1, IntervalRecursion
<1>3. f \in [0..n -> Nat] /\ f = [k \in 0..n |-> IF k = 0 THEN n ELSE step[k][f[k - 1]]]
  BY <1>2 DEF RecursFrom
<1>4. f = [k \in 0..n |-> IF k = 0 THEN n ELSE f[k - 1] \div 10]
  <2> HIDE DEF step
  <2>1. ASSUME NEW k \in 0..n, k # 0 PROVE f[k] = f[k - 1] \div 10
    <3>1. k \in Nat /\ k - 1 \in 0..n
      BY <2>1
    <3>2. f[k] = step[k][f[k - 1]]
      BY <1>3, <2>1
    <3>3. f[k - 1] \in Nat
      BY <1>3, <3>1
    <3> QED BY <3>1, <3>2, <3>3 DEF step
  <2>2. f[0] = n /\ f = [k \in 0..n |-> f[k]]
    BY <1>3
  <2> QED BY <2>1, <2>2
<1>5. rest = [k \in 0..n |-> IF k = 0 THEN n ELSE rest[k - 1] \div 10]
  BY <1>4
<1> HIDE DEF rest
<1>6. rest[0] = n /\ \A k \in 1..n : rest[k] = rest[k - 1] \div 10
  <2>1. 0 \in 0..n /\ \A k \in 1..n : k \in 0..n /\ k # 0
    OBVIOUS
  <2> QED BY <1>5, <2>1
<1>7. rest \in [0..n -> Nat]
  <2>1. rest = [k \in 0..n |-> rest[k]]
    BY <1>5
  <2>2. ASSUME NEW k \in (0 + 1)..n, rest[k - 1] \in Nat PROVE rest[k] \in Nat
    BY <1>6, <2>2
  <2>3. 0 <= n => rest[0] \in Nat
    BY <1>6
  <2>4. 0 \in Nat
    OBVIOUS
  <2> QED BY <2>1, <2>2, <2>3, <2>4, IntervalValues
<1>8. \E k \in 0..n : rest[k] < 10
  <2> DEFINE P == {k \in Nat : k <= n => rest[k] < 10 \/ rest[k] + k <= n}
  <2>1. 0 \in P
    BY <1>6
  <2>2. ASSUME NEW k \in Nat, k \in P PROVE k + 1 \in P
    <3> SUFFICES ASSUME k + 1 <= n PROVE rest[k + 1] < 10 \/ rest[k + 1] + (k + 1) <= n
      OBVIOUS
    <3>1. k + 1 \in 1..n /\ (k + 1) - 1 = k /\ k \in 0..n
      OBVIOUS
    <3>2. rest[k + 1] = rest[k] \div 10 /\ rest[k] \in Nat
      BY <1>6, <1>7, <3>1
    <3>3. rest[k] < 10 \/ rest[k] + k <= n
      BY <2>2
    <3>4. PICK x \in Nat : x = rest[k]
      BY <3>2
    <3>5. x \div 10 < 10 \/ (x \div 10) + (k + 1) <= n
      <4>1. x < 10 => x \div 10 < 10
        OBVIOUS
      <4>2. x >= 10 => x \div 10 + 1 <= x
        OBVIOUS
      <4>3. x \div 10 \in Nat
        OBVIOUS
      <4> QED BY <3>3, <3>4, <4>1, <4>2, <4>3
    <3> QED BY <3>2, <3>4, <3>5
  <2>3. \A k \in Nat : k \in P
    <3> HIDE DEF P
    <3> QED BY <2>1, <2>2, Induction
  <2>4. n \in P /\ n \in 0..n
    BY <2>3
  <2>5. rest[n] \in Nat
    BY <1>7
  <2> QED BY <2>4, <2>5
<1> DEFINE last == CHOOSE k \in 0..n : rest[k] < 10 /\ \A j \in 0..(k - 1) : rest[j] >= 10
<1>9. last \in 0..n
  <2> DEFINE P == {k \in 0..n : rest[k] < 10}
  <2>1. PICK m \in 0..n : m \in P
    BY <1>8
  <2>2. PICK k \in 0..n : k \in P /\ \A j \in 0..(k - 1) : j \notin P
    <3>1. 0 \in Nat /\ n \in Nat
      OBVIOUS
    <3>2. \E k : IsFirst(k, 0, n, P)
      <4> HIDE DEF P
      <4> QED BY <2>1, <3>1, First
    <3> HIDE DEF P
    <3> QED BY <3>2 DEF IsFirst
  <2>3. rest[k] < 10 /\ \A j \in 0..(k - 1) : rest[j] >= 10
    <3>1. ASSUME NEW j \in 0..(k - 1) PROVE rest[j] >= 10
      <4>1. j \in 0..n
        OBVIOUS
      <4> QED BY <1>7, <2>2, <4>1
    <3> QED BY <2>2, <3>1
  <2> QED BY <2>3
<1> HIDE DEF last
<1> DEFINE digit == [i \in 1..(last + 1) |-> DigitChars[(rest[last + 1 - i] % 10) + 1]]
<1>10. ASSUME NEW i \in 1..(last + 1) PROVE digit[i] \in Character
  <2>1. last + 1 - i \in 0..n
    BY <1>9
  <2>2. PICK x \in Nat : x = rest[last + 1 - i]
    BY <1>7, <2>1
  <2>3. (x % 10) + 1 \in 1..10
    BY <2>2
  <2> QED BY <2>2, <2>3, DigitCharsType
<1>11. last + 1 \in Nat /\ last + 1 # 0
  BY <1>9
<1>12. digit \in Texts /\ Len(digit) = last + 1
  BY <1>10, <1>11, IsSeq DEF Texts
<1>13. DigitsOf(n) = digit
  BY DEF DigitsOf, digit, last, rest
<1> HIDE DEF digit
<1> QED BY <1>11, <1>12, <1>13, EmptySeq

-----------------------------------------------------------------------------
(* The lexer.                                                                 *)

\* The labels of the automaton of scan_number; none leads back to init.
Inner == {"minus", "zero", "any1", "decimal1", "decimal2", "exponent", "sign", "any2",
          "done", "error"}

\* The states of the number automaton, the first one included.
Labels == Inner \cup {"init"}

\* A step of the automaton leads into one of its inner states.
LEMMA GotoType ==
  ASSUME NEW label \in Labels, NEW c
  PROVE  goto(label, c) \in Inner
  BY DEF goto, Labels, Inner

\* The first character never ends a number: scan_number is entered on a digit or a minus.
LEMMA GotoFromInit ==
  ASSUME NEW c
  PROVE  goto("init", c) \notin {"done", "error"}
  BY DEF goto

\* The digits.
LEMMA DigitsFact == Digits = {"0", "1", "2", "3", "4", "5", "6", "7", "8", "9"}
<1>1. DOMAIN DigitChars = 1..10
  BY DEF DigitChars
<1> QED BY <1>1 DEF Digits, DigitChars, Range

\* At the end of the text every label is left for one that stops.
LEMMA GotoAtEOF ==
  ASSUME NEW label \in Inner
  PROVE  goto(label, EOF) \in {"done", "error"}
<1>1. EOF \notin Digits /\ EOF \notin {".", "e", "+", "-", "0"}
  BY DigitsFact DEF EOF
<1> QED BY <1>1 DEF goto, Inner

\* scan_number reads at least one character and at most up to the end of the text.
LEMMA RunNumberType ==
  ASSUME NEW S, NEW text \in Seq(S), NEW i \in 1..Len(text)
  PROVE  RunNumber(text, i).at \in (i + 1)..(Len(text) + 1)
<1> DEFINE L == Len(text)
           hi == L + 2
           label[k \in i..hi] == IF k = i THEN "init" ELSE goto(label[k - 1], get(text, k - 1))
           step == [k \in Nat |-> [l \in Labels |-> goto(l, get(text, k - 1))]]
<1>1. L \in Nat /\ i \in Nat /\ i <= L /\ hi \in Nat /\ hi = L + 2 /\ "init" \in Labels
  BY LenProperties DEF Labels
<1>2. step \in Steps(Labels)
  <2>1. Inner \subseteq Labels
    BY DEF Labels
  <2> QED BY <2>1, GotoType DEF Steps
<1> HIDE DEF L, hi
<1>3. PICK f : RecursFrom(f, Labels, i, hi, "init", step)
  <2> HIDE DEF step
  <2> QED BY <1>1, <1>2, IntervalRecursion
<1>4. /\ f \in [i..hi -> Labels]
      /\ f = [k \in i..hi |-> IF k = i THEN "init" ELSE step[k][f[k - 1]]]
  BY <1>3 DEF RecursFrom
<1>5. f = [k \in i..hi |-> IF k = i THEN "init" ELSE goto(f[k - 1], get(text, k - 1))]
  <2> HIDE DEF step
  <2>1. ASSUME NEW k \in i..hi, k # i PROVE f[k] = goto(f[k - 1], get(text, k - 1))
    <3>1. k \in Nat /\ k - 1 \in i..hi
      BY <1>1, <2>1
    <3>2. f[k] = step[k][f[k - 1]]
      BY <1>4, <2>1
    <3>3. f[k - 1] \in Labels
      BY <1>4, <3>1
    <3> QED BY <3>1, <3>2, <3>3 DEF step
  <2>2. i \in i..hi /\ f[i] = "init" /\ f = [k \in i..hi |-> f[k]]
    BY <1>1, <1>4
  <2> QED BY <2>1, <2>2
<1>6. label = [k \in i..hi |-> IF k = i THEN "init" ELSE goto(label[k - 1], get(text, k - 1))]
  BY <1>5
<1> HIDE DEF label
<1>7. /\ label[i] = "init"
      /\ \A k \in (i + 1)..hi : label[k] = goto(label[k - 1], get(text, k - 1))
  <2>1. i \in i..hi /\ \A k \in (i + 1)..hi : k \in i..hi /\ k # i
    BY <1>1
  <2> QED BY <1>6, <2>1
<1>8. label \in [i..hi -> Labels]
  <2>1. label = [k \in i..hi |-> label[k]]
    BY <1>6
  <2>2. ASSUME NEW k \in (i + 1)..hi, label[k - 1] \in Labels PROVE label[k] \in Labels
    BY <1>7, <2>2, GotoType DEF Labels
  <2>3. i <= hi => label[i] \in Labels
    BY <1>7 DEF Labels
  <2> QED BY <1>1, <2>1, <2>2, <2>3, IntervalValues
<1> DEFINE Stops(k) == label[k] \in {"done", "error"}
<1>9. Stops(hi)
  <2>1. hi \in (i + 1)..hi /\ hi - 1 = L + 1 /\ L + 1 \in (i + 1)..hi /\ (L + 1) - 1 \in i..hi
    BY <1>1
  <2>2. label[L + 1] \in Inner
    <3>1. label[L + 1] = goto(label[(L + 1) - 1], get(text, (L + 1) - 1))
      BY <1>7, <2>1
    <3>2. label[(L + 1) - 1] \in Labels
      BY <1>8, <2>1
    <3> QED BY <3>1, <3>2, GotoType
  <2>3. get(text, L + 1) = EOF
    BY <1>1 DEF get, L
  <2>4. label[hi] = goto(label[L + 1], EOF)
    BY <1>7, <2>1, <2>3
  <2> QED BY <2>2, <2>4, GotoAtEOF
<1>10. ~Stops(i) /\ ~Stops(i + 1)
  <2>1. i + 1 \in (i + 1)..hi /\ (i + 1) - 1 = i
    BY <1>1
  <2>2. label[i + 1] = goto("init", get(text, i))
    BY <1>7, <2>1
  <2> QED BY <1>7, <2>2, GotoFromInit
<1> DEFINE stop == CHOOSE k \in i..hi : Stops(k) /\ \A j \in i..(k - 1) : ~Stops(j)
<1>11. stop \in i..hi /\ Stops(stop)
  <2> DEFINE P == {k \in i..hi : Stops(k)}
  <2>1. PICK m \in i..hi : m \in P
    <3>1. hi \in i..hi
      BY <1>1
    <3> QED BY <1>9, <3>1
  <2>2. PICK k \in i..hi : k \in P /\ \A j \in i..(k - 1) : j \notin P
    <3>1. \E k : IsFirst(k, i, hi, P)
      <4> HIDE DEF P
      <4> QED BY <1>1, <2>1, First
    <3> HIDE DEF P
    <3> QED BY <3>1 DEF IsFirst
  <2>3. Stops(k) /\ \A j \in i..(k - 1) : ~Stops(j)
    <3>1. ASSUME NEW j \in i..(k - 1) PROVE ~Stops(j)
      <4>1. j \in i..hi
        BY <1>1, <2>2
      <4> QED BY <2>2, <4>1
    <3> QED BY <2>2, <3>1
  <2> HIDE DEF Stops
  <2> QED BY <2>2, <2>3
<1> HIDE DEF stop
<1>12. stop - 1 \in (i + 1)..(L + 1)
  <2>1. stop # i /\ stop # i + 1
    BY <1>10, <1>11
  <2>2. stop \in Nat /\ i <= stop /\ stop <= L + 2
    BY <1>1, <1>11
  <2> QED BY <1>1, <2>1, <2>2
<1>13. RunNumber(text, i).at = stop - 1
  BY DEF RunNumber, stop, label, hi, L
<1> QED BY <1>12, <1>13 DEF L

\* skip_whitespace finds the next character that is not blank, or the end.
LEMMA SkipWhitespace ==
  ASSUME NEW S, NEW text \in Seq(S), NEW i \in Nat \ {0}
  PROVE  /\ skip_whitespace(text, i) \in Nat /\ i <= skip_whitespace(text, i)
         /\ get(text, skip_whitespace(text, i)) \notin Blank
<1> DEFINE L == Len(text)
           P == {k \in i..(i + L) : get(text, k) \notin Blank}
<1>1. L \in Nat /\ i \in Nat /\ i # 0 /\ i + L \in Nat
  BY LenProperties
<1>2. PICK m \in i..(i + L) : m \in P
  <2>1. i + L \in i..(i + L) /\ ~(i + L <= L)
    BY <1>1
  <2>2. get(text, i + L) = EOF
    BY <2>1 DEF get
  <2> QED BY <2>1, <2>2 DEF Blank, EOF
<1>3. PICK k \in i..(i + L) : k \in P /\ \A j \in i..(k - 1) : j \notin P
  <2> HIDE DEF P, L
  <2>1. PICK hi \in Nat : hi = i + L
    BY <1>1
  <2>2. \E k : IsFirst(k, i, hi, P)
    BY <1>1, <1>2, <2>1, First
  <2> QED BY <2>1, <2>2 DEF IsFirst
<1> DEFINE stop == CHOOSE k1 \in i..(i + L) :
              get(text, k1) \notin Blank /\ \A j \in i..(k1 - 1) : get(text, j) \in Blank
<1>4. stop \in i..(i + L) /\ get(text, stop) \notin Blank
  <2>1. get(text, k) \notin Blank /\ \A j \in i..(k - 1) : get(text, j) \in Blank
    <3>1. ASSUME NEW j \in i..(k - 1) PROVE get(text, j) \in Blank
      <4>1. j \in i..(i + L)
        BY <1>1, <1>3
      <4> QED BY <1>3, <4>1
    <3> QED BY <1>3, <3>1
  <2> HIDE DEF L, P
  <2> QED BY <1>3, <2>1
<1>5. skip_whitespace(text, i) = stop
  BY DEF skip_whitespace
<1> HIDE DEF stop
<1> QED BY <1>1, <1>4, <1>5

\* scan_string reads on, and what it makes of a string is a text.
LEMMA ScanStringType ==
  ASSUME NEW text \in Texts, NEW i \in 1..(Len(text) + 1)
  PROVE  LET t == scan_string(text, i)
         IN  \/ t.t = "value" /\ t.v \in {"str"} \X Texts /\ t.next \in (i + 1)..(Len(text) + 1)
             \/ t.t = "parse_error" /\ t.v = <<"null", 0>> /\ t.next \in Nat /\ t.next > i - 1
<1> DEFINE L == Len(text)
           hi == L + 1
           escaped[k \in i..hi] == k > i /\ get(text, k - 1) = BACKSLASH /\ ~escaped[k - 1]
           step == [k \in Nat |-> [e \in BOOLEAN |-> k > i /\ get(text, k - 1) = BACKSLASH /\ ~e]]
<1>1. L \in Nat /\ i \in Nat /\ 1 <= i /\ i <= L + 1 /\ hi \in Nat /\ hi = L + 1
  BY LenProperties DEF Texts
<1>2. step \in Steps(BOOLEAN)
  BY DEF Steps
<1> HIDE DEF L, hi
<1>3. PICK f : RecursFrom(f, BOOLEAN, i, hi, FALSE, step)
  <2> HIDE DEF step
  <2>1. FALSE \in BOOLEAN
    OBVIOUS
  <2> QED BY <1>1, <1>2, <2>1, IntervalRecursion
<1>4. /\ f \in [i..hi -> BOOLEAN]
      /\ f = [k \in i..hi |-> IF k = i THEN FALSE ELSE step[k][f[k - 1]]]
  BY <1>3 DEF RecursFrom
<1>5. f = [k \in i..hi |-> k > i /\ get(text, k - 1) = BACKSLASH /\ ~f[k - 1]]
  <2> HIDE DEF step
  <2>1. ASSUME NEW k \in i..hi PROVE f[k] = (k > i /\ get(text, k - 1) = BACKSLASH /\ ~f[k - 1])
    <3>1. CASE k = i
      <4>1. ~(k > i)
        BY <1>1, <3>1
      <4>2. f[k] = FALSE
        BY <1>4, <3>1, Zenon
      <4> QED BY <4>1, <4>2, Zenon
    <3>2. CASE k # i
      <4>1. k \in Nat /\ k - 1 \in i..hi
        BY <1>1, <3>2
      <4>2. f[k] = step[k][f[k - 1]]
        BY <1>4, <3>2
      <4>3. f[k - 1] \in BOOLEAN
        BY <1>4, <4>1
      <4> QED BY <4>1, <4>2, <4>3 DEF step
    <3> QED BY <3>1, <3>2
  <2>2. f = [k \in i..hi |-> f[k]]
    BY <1>4
  <2> QED BY <2>1, <2>2
<1>6. escaped = [k \in i..hi |-> k > i /\ get(text, k - 1) = BACKSLASH /\ ~escaped[k - 1]]
  BY <1>5
<1> HIDE DEF escaped
<1>7. \A k \in i..hi : escaped[k] => k > i
  BY <1>6
<1> DEFINE Stops(k) == IF escaped[k] THEN get(text, k) \notin Escapes
                       ELSE get(text, k) \in {QUOTE, EOF, "LF", "NUL"}
           stop == CHOOSE k \in i..hi : Stops(k) /\ \A j \in i..(k - 1) : ~Stops(j)
<1>8. get(text, hi) = EOF
  BY <1>1 DEF get, L
<1>9. Stops(hi)
  BY <1>8 DEF Escapes, EOF, QUOTE, BACKSLASH
<1>10. stop \in i..hi
  <2> DEFINE P == {k \in i..hi : Stops(k)}
  <2>1. PICK m \in i..hi : m \in P
    <3>1. hi \in i..hi
      BY <1>1
    <3> QED BY <1>9, <3>1
  <2>2. PICK k \in i..hi : k \in P /\ \A j \in i..(k - 1) : j \notin P
    <3>1. \E k : IsFirst(k, i, hi, P)
      <4> HIDE DEF P
      <4> QED BY <1>1, <2>1, First
    <3> HIDE DEF P
    <3> QED BY <3>1 DEF IsFirst
  <2>3. Stops(k) /\ \A j \in i..(k - 1) : ~Stops(j)
    <3>1. ASSUME NEW j \in i..(k - 1) PROVE ~Stops(j)
      <4>1. j \in i..hi
        BY <1>1, <2>2
      <4> HIDE DEF Stops
      <4> QED BY <2>2, <4>1
    <3> QED BY <2>2, <3>1
  <2> HIDE DEF Stops
  <2> QED BY <2>2, <2>3
<1> DEFINE Unescaped(k) == IF escaped[k] /\ text[k] = "n" THEN <<"LF">>
                           ELSE IF escaped[k] \/ text[k] # BACKSLASH THEN <<text[k]>> ELSE <<>>
           content == [k \in 1..(stop - i) |-> Unescaped(i + k - 1)]
<1>11. scan_string(text, i) =
          IF get(text, stop) = QUOTE
          THEN Token("value", <<"str", FlattenSeq(content)>>, stop + 1)
          ELSE ParseError(IF escaped[stop] THEN stop - 1 ELSE stop)
  BY DEF scan_string, content, Unescaped, stop, Stops, escaped, hi, L
<1>12. stop \in Nat /\ i <= stop /\ stop <= L + 1
  BY <1>1, <1>10
<1> HIDE DEF stop, Stops
<1>13. CASE get(text, stop) = QUOTE
  <2>1. stop <= L
    <3>1. stop # hi
      BY <1>8, <1>13 DEF EOF, QUOTE
    <3> QED BY <1>1, <1>12, <3>1
  <2>2. ASSUME NEW k \in 1..(stop - i) PROVE content[k] \in Texts
    <3>1. i + k - 1 \in 1..L
      BY <1>1, <1>12, <2>1
    <3>2. text[i + k - 1] \in Character
      BY <3>1 DEF Texts, L
    <3>3. <<>> \in Texts /\ <<text[i + k - 1]>> \in Texts /\ <<"LF">> \in Texts
      <4>1. <<>> \in Texts
        BY EmptySeq DEF Texts
      <4>2. "LF" \in Character
        BY DEF Character, Literals
      <4> QED BY <3>2, <4>1, <4>2, Single DEF Texts
    <3>4. content[k] = Unescaped(i + k - 1)
      OBVIOUS
    <3> HIDE DEF content
    <3> QED BY <3>3, <3>4
  <2>3. stop - i \in Nat
    BY <1>1, <1>12
  <2>4. content \in Seq(Texts)
    <3>1. PICK n \in Nat : n = stop - i
      BY <2>3
    <3>2. content \in [1..n -> Texts]
      BY <2>2, <3>1
    <3> HIDE DEF content
    <3> QED BY <3>2, IsSeq
  <2> HIDE DEF content
  <2>5. FlattenSeq(content) \in Texts
    BY <2>4, FlattenSeqType DEF Texts
  <2>6. scan_string(text, i) = [t |-> "value", v |-> <<"str", FlattenSeq(content)>>, next |-> stop + 1]
    BY <1>11, <1>13 DEF Token
  <2>7. stop + 1 \in (i + 1)..(L + 1)
    BY <1>1, <1>12, <2>1
  <2> QED BY <2>5, <2>6, <2>7 DEF L
<1>14. CASE get(text, stop) # QUOTE
  <2>1. PICK e \in Nat : e = (IF escaped[stop] THEN stop - 1 ELSE stop) /\ e >= i
    BY <1>1, <1>7, <1>10, <1>12
  <2>2. scan_string(text, i) = [t |-> "parse_error", v |-> <<"null", 0>>, next |-> e + 1]
    BY <1>11, <1>14, <2>1 DEF ParseError, Token
  <2>3. e + 1 \in Nat /\ e + 1 > i - 1
    BY <1>1, <2>1
  <2> QED BY <2>2, <2>3
<1> QED BY <1>13, <1>14

\* Parts of a text are texts.
LEMMA Parts ==
  ASSUME NEW s \in Texts, NEW m \in 1..(Len(s) + 1), NEW n \in (m - 1)..Len(s)
  PROVE  SubSeq(s, m, n) \in Texts /\ Len(SubSeq(s, m, n)) = n - m + 1
  BY SubSeqProperties DEF Texts

\* What is kept of a text is a text.
LEMMA KeepText ==
  ASSUME NEW s \in Texts, NEW T
  PROVE  Keep(s, T) \in Texts
<1>1. Keep(s, T) \in Seq(Character \cap T)
  BY KeepType DEF Texts
<1> QED BY <1>1 DEF Texts

\* The first character that is not a zero.
LEMMA TrimFacts ==
  ASSUME NEW s \in Texts
  PROVE  /\ Trim(s) \in 0..Len(s)
         /\ Trim(s) # 0 => s[Trim(s)] # "0"
         /\ \A i \in 1..Len(s) : s[i] # "0" => Trim(s) # 0 /\ Trim(s) <= i
<1> DEFINE I == {i \in 1..Len(s) : s[i] # "0"}
<1>1. Trim(s) = IF I # {} THEN Min(I) ELSE 0
  BY DEF Trim, SelectInSeq
<1>2. Len(s) \in Nat
  BY LenProperties DEF Texts
<1>3. CASE I = {}
  BY <1>1, <1>2, <1>3
<1>4. CASE I # {}
  <2>1. I \in SUBSET Nat
    OBVIOUS
  <2>2. PICK k \in I : \A i \in I : k <= i
    <3> HIDE DEF I
    <3> QED BY <1>4, <2>1, LeastNatural
  <2>3. Min(I) \in I /\ \A i \in I : Min(I) <= i
    <3> HIDE DEF I
    <3> QED BY <2>2 DEF Min
  <2>4. Trim(s) = Min(I)
    BY <1>1, <1>4
  <2>5. Trim(s) \in 1..Len(s) /\ s[Trim(s)] # "0"
    BY <2>3, <2>4
  <2>6. ASSUME NEW i \in 1..Len(s), s[i] # "0" PROVE Trim(s) <= i
    BY <2>3, <2>4, <2>6
  <2> QED BY <1>2, <2>5, <2>6
<1> QED BY <1>3, <1>4

\* The floats the lexer makes.
Floats == [neg : BOOLEAN, digits : Texts, point : Int]

\* Float gives one of them.
LEMMA FloatType ==
  ASSUME NEW neg \in BOOLEAN, NEW digits \in Texts, NEW point \in Int
  PROVE  Float(neg, digits, point) \in Floats
<1> DEFINE L == Len(digits)
           first == Trim(digits)
           behind == Trim(Reverse(digits))
           last == L + 1 - behind
<1>1. L \in Nat /\ first \in 0..L
  BY LenProperties, TrimFacts DEF Texts
<1>2. Reverse(digits) \in Texts /\ Len(Reverse(digits)) = L
      /\ \A i \in 1..L : Reverse(digits)[i] = digits[L - i + 1]
  BY <1>1 DEF Reverse, Texts
<1>3. CASE first = 0
  <2>1. <<>> \in Texts
    BY EmptySeq DEF Texts
  <2>2. Float(neg, digits, point) = [neg |-> neg, digits |-> <<>>, point |-> 0]
    BY <1>3 DEF Float
  <2> QED BY <2>1, <2>2 DEF Floats
<1>4. CASE first # 0
  <2>1. digits[first] # "0"
    BY <1>4, TrimFacts
  <2>2. L - first + 1 \in 1..L /\ Reverse(digits)[L - first + 1] # "0"
    <3>1. L - first + 1 \in 1..L /\ L - (L - first + 1) + 1 = first
      BY <1>1, <1>4
    <3> QED BY <1>2, <2>1, <3>1
  <2>3. behind # 0 /\ behind <= L - first + 1 /\ behind \in 0..L
    <3> HIDE DEF first, L
    <3> QED BY <1>2, <2>2, TrimFacts
  <2>4. first \in 1..(L + 1) /\ last \in (first - 1)..L
    <3> HIDE DEF first, behind, L
    <3> QED BY <1>1, <1>4, <2>3
  <2>5. SubSeq(digits, first, last) \in Texts
    <3> HIDE DEF first, last
    <3> QED BY <2>4, Parts
  <2>6. Float(neg, digits, point) =
           [neg |-> neg, digits |-> SubSeq(digits, first, last), point |-> point - first + 1]
    BY <1>4 DEF Float
  <2>7. point - first + 1 \in Int
    BY <1>1
  <2> HIDE DEF first, last
  <2> QED BY <2>5, <2>6, <2>7 DEF Floats
<1> QED BY <1>3, <1>4

\* What a floating-point literal stands for.
LEMMA StrtofType ==
  ASSUME NEW s \in Texts, s # <<>>
  PROVE  strtof(s) \in Floats
<1> DEFINE L == Len(s)
           E == {i \in 1..L : s[i] = "e"}
           e == IF E # {} THEN Min(E) ELSE 0
           body == IF e = 0 THEN s ELSE SubSeq(s, 1, e - 1)
           mant == Keep(body, Digits \cup {"."})
           D == {i \in 1..Len(mant) : mant[i] = "."}
           dot == IF D # {} THEN Min(D) ELSE 0
           power == IF e = 0 THEN <<>> ELSE SubSeq(s, e + 1, L)
           exp == Decimal(Keep(power, Digits))
           point == (IF dot = 0 THEN Len(mant) ELSE dot - 1)
                       + (IF power # <<>> /\ power[1] = "-" THEN -exp ELSE exp)
<1>1. L \in Nat
  BY LenProperties DEF Texts
<1>2. e \in 0..L
  <2>1. CASE E = {}
    BY <1>1, <2>1
  <2>2. CASE E # {}
    <3>1. E \in SUBSET Nat
      OBVIOUS
    <3>2. \E k \in E : \A i \in E : k <= i
      <4> HIDE DEF E
      <4> QED BY <2>2, <3>1, LeastNatural
    <3>3. Min(E) \in E
      <4> HIDE DEF E
      <4> QED BY <3>2 DEF Min
    <3> QED BY <2>2, <3>3
  <2> QED BY <2>1, <2>2
<1>3. body \in Texts /\ power \in Texts
  <2>1. CASE e = 0
    <3>1. <<>> \in Texts
      BY EmptySeq DEF Texts
    <3> QED BY <2>1, <3>1
  <2>2. CASE e # 0
    <3>1. e \in 1..L
      <4> HIDE DEF e, L
      <4> QED BY <1>1, <1>2, <2>2
    <3>2. PICK k \in 1..L : k = e
      <4> HIDE DEF e, L
      <4> QED BY <3>1
    <3>3. SubSeq(s, 1, k - 1) \in Texts
      <4>1. 1 \in 1..(L + 1) /\ k - 1 \in (1 - 1)..L
        BY <1>1, <3>2
      <4> QED BY <4>1, Parts
    <3>4. SubSeq(s, k + 1, L) \in Texts
      <4>1. k + 1 \in 1..(L + 1) /\ L \in ((k + 1) - 1)..L
        BY <1>1, <3>2
      <4> QED BY <4>1, Parts
    <3> HIDE DEF e, L
    <3> QED BY <2>2, <3>2, <3>3, <3>4
  <2> QED BY <2>1, <2>2
<1> HIDE DEF body, power
<1>4. mant \in Texts /\ exp \in Int
  <2>1. mant \in Texts /\ Keep(power, Digits) \in Texts
    BY <1>3, KeepText
  <2> HIDE DEF mant
  <2> QED BY <2>1, DecimalType DEF Texts
<1> HIDE DEF mant, exp
<1>5. dot \in Int /\ Len(mant) \in Nat
  <2>1. Len(mant) \in Nat
    BY <1>4, LenProperties DEF Texts
  <2>2. CASE D = {}
    BY <2>1, <2>2
  <2>3. CASE D # {}
    <3>1. D \in SUBSET Nat
      OBVIOUS
    <3>2. \E k \in D : \A i \in D : k <= i
      <4> HIDE DEF D
      <4> QED BY <2>3, <3>1, LeastNatural
    <3>3. Min(D) \in D
      <4> HIDE DEF D
      <4> QED BY <3>2 DEF Min
    <3> QED BY <2>1, <2>3, <3>3
  <2> QED BY <2>2, <2>3
<1>6. point \in Int
  <2> HIDE DEF dot
  <2> QED BY <1>4, <1>5
<1>7. Keep(mant, Digits) \in Texts
  BY <1>4, KeepText
<1>8. strtof(s) = Float(s[1] = "-", Keep(mant, Digits), point)
  BY DEF strtof, SelectInSeq, point, exp, power, mant, body
<1>9. (s[1] = "-") \in BOOLEAN
  OBVIOUS
<1> HIDE DEF point
<1> QED BY <1>6, <1>7, <1>8, <1>9, FloatType

\* What is flushed to zero is a float again.
LEMMA FlushedType ==
  ASSUME NEW f \in Floats
  PROVE  Flushed(f) \in Floats
<1>1. f.neg \in BOOLEAN /\ <<>> \in Texts
  BY EmptySeq DEF Floats, Texts
<1> QED BY <1>1 DEF Flushed, Floats

\* The values that hold no others.
Scalars == {<<"null", 0>>} \cup ({"bool"} \X BOOLEAN) \cup ({"int"} \X Int)
           \cup ({"str"} \X Texts) \cup ({"float"} \X Floats)

\* scan_number ends behind the character it began at, and behind no more than the text.
LEMMA ScanNumberType ==
  ASSUME NEW text \in Texts, NEW i \in 1..Len(text)
  PROVE  LET t == scan_number(text, i)
         IN  /\ t.v \in Scalars /\ t.next \in Nat /\ t.next > i
             /\ t.t \in {"value", "overflow", "parse_error"}
             /\ t.t = "value" => t.next <= Len(text) + 1
<1> DEFINE L == Len(text)
           run == RunNumber(text, i)
           s == SubSeq(text, i, run.at - 1)
           n == IF s[1] = "-" THEN -Decimal(Tail(s)) ELSE Decimal(s)
<1>1. L \in Nat /\ i \in Nat /\ 1 <= i /\ i <= L
  BY LenProperties DEF Texts
<1>2. PICK stop \in (i + 1)..(L + 1) : stop = run.at
  BY RunNumberType DEF Texts
<1>3. s \in Texts /\ s # <<>>
  <2>1. i \in 1..(L + 1) /\ stop - 1 \in (i - 1)..L /\ (stop - 1) - i + 1 # 0
    BY <1>1, <1>2
  <2>2. SubSeq(text, i, stop - 1) \in Texts /\ Len(SubSeq(text, i, stop - 1)) = (stop - 1) - i + 1
    BY <2>1, Parts
  <2>3. s = SubSeq(text, i, stop - 1)
    BY <1>2
  <2> HIDE DEF s
  <2> QED BY <2>1, <2>2, <2>3, EmptySeq
<1> HIDE DEF s
<1>4. n \in Int
  <2>1. Tail(s) \in Texts
    BY <1>3, HeadTailProperties DEF Texts
  <2>2. Decimal(Tail(s)) \in Int
    BY <2>1, DecimalType DEF Texts
  <2>3. Decimal(s) \in Int
    BY <1>3, DecimalType DEF Texts
  <2> QED BY <2>2, <2>3
<1>5. PICK f \in Floats : f = Flushed(strtof(s))
  <2>1. PICK y \in Floats : y = strtof(s)
    BY <1>3, StrtofType
  <2> QED BY <2>1, FlushedType
<1>6. scan_number(text, i) =
        IF run.end = "error" THEN ParseError(run.at)
        ELSE IF Range(s) \cap {".", "e"} = {} /\ -LongHalf <= n /\ n < 2 * LongHalf
             THEN Token("value", <<"int", n>>, run.at)
             ELSE Token(IF strtof(s).point > MaxPoint THEN "overflow" ELSE "value",
                        <<"float", Flushed(strtof(s))>>, run.at)
  BY DEF scan_number, n, s, run
<1> HIDE DEF n
<1>7. <<"int", n>> \in Scalars /\ <<"float", f>> \in Scalars /\ <<"null", 0>> \in Scalars
  BY <1>4 DEF Scalars
<1>8. \/ scan_number(text, i) = [t |-> "parse_error", v |-> <<"null", 0>>, next |-> stop + 1]
      \/ scan_number(text, i) = [t |-> "value", v |-> <<"int", n>>, next |-> stop]
      \/ scan_number(text, i) = [t |-> "value", v |-> <<"float", f>>, next |-> stop]
      \/ scan_number(text, i) = [t |-> "overflow", v |-> <<"float", f>>, next |-> stop]
  <2> HIDE DEF run
  <2> QED BY <1>2, <1>5, <1>6 DEF ParseError, Token
<1>9. stop \in Nat /\ stop + 1 \in Nat /\ stop > i /\ stop + 1 > i /\ stop <= L + 1
  BY <1>1, <1>2
<1> HIDE DEF L
<1> QED BY <1>7, <1>8, <1>9 DEF L

\* A token: it carries a scalar, the lexer reads on, and it is behind the end only
\* for a token that no value and no structure begins or ends with.
IsToken(t, text, from) ==
  /\ t.v \in Scalars /\ t.next \in Nat /\ t.next > from
  /\ t.t \in Structural \cup {"value"} => t.next <= Len(text) + 1

\* A byte order mark is passed over at the beginning only.
LEMMA SkipBom ==
  ASSUME NEW text, NEW from \in Nat \ {0}
  PROVE  /\ skip_bom(text, from) \in Nat \ {0} /\ from <= skip_bom(text, from)
         /\ get(text, from) # "BOM" => skip_bom(text, from) = from
  BY DEF skip_bom

\* scan gives a token of the text.
LEMMA ScanType ==
  ASSUME NEW text \in Texts, NEW from \in Nat \ {0}
  PROVE  IsToken(scan(text, from), text, from)
<1> DEFINE L == Len(text)
           i == skip_whitespace(text, skip_bom(text, from))
           c == get(text, i)
<1>1. L \in Nat /\ i \in Nat /\ from <= i /\ 1 <= i /\ i + 1 > from /\ i + 1 \in Nat
  <2>1. PICK b \in Nat \ {0} : b = skip_bom(text, from) /\ from <= b
    BY SkipBom
  <2>2. L \in Nat /\ skip_whitespace(text, b) \in Nat /\ b <= skip_whitespace(text, b)
    BY LenProperties, SkipWhitespace DEF Texts
  <2> QED BY <2>1, <2>2
<1>2. c # EOF => i \in 1..L
  BY <1>1 DEF get
<1> DEFINE Plain(x, y) == [t |-> x, v |-> y, next |-> i + 1]
<1>3. ASSUME NEW x, NEW y \in Scalars, x \notin Structural \cup {"value"} \/ c # EOF,
             scan(text, from) = Plain(x, y)
      PROVE  IsToken(scan(text, from), text, from)
  <2> HIDE DEF i, c
  <2>1. c # EOF => i + 1 <= L + 1
    BY <1>1, <1>2
  <2> QED BY <1>1, <1>3, <2>1 DEF IsToken
<1>4. <<"null", 0>> \in Scalars /\ <<"bool", c = "t">> \in Scalars
  BY DEF Scalars
<1>5. scan(text, from) =
          CASE c \in Structural       -> Token(c, <<"null", 0>>, i + 1)
          [] c \in {"t", "f"}       -> Token("value", <<"bool", c = "t">>, i + 1)
          [] c = "n"                -> Token("value", <<"null", 0>>, i + 1)
          [] c = QUOTE              -> scan_string(text, i + 1)
          [] c \in Digits \cup {"-"} -> scan_number(text, i)
          [] c \in {EOF, "NUL"}     -> Token("end_of_input", <<"null", 0>>, i + 1)
          [] OTHER                  -> ParseError(i)
  BY DEF scan
<1>6. /\ \A x \in Structural : x \notin {"t", "f", "n", QUOTE, EOF, "NUL", "-"} /\ x \notin Digits
      /\ \A x \in Digits \cup {"-"} : x \notin {"t", "f", "n", QUOTE, EOF, "NUL"}
      /\ QUOTE \notin {"t", "f", "n", EOF, "NUL"} /\ {EOF, "NUL"} \cap {"t", "f", "n"} = {}
  BY DigitsFact DEF Structural, QUOTE, EOF
<1>7. Structural \cap {"end_of_input", "parse_error", "overflow", "value"} = {}
  BY DEF Structural
<1> HIDE DEF i, c
<1>8. CASE c \in Structural
  <2>1. scan(text, from) = Plain(c, <<"null", 0>>)
    BY <1>5, <1>6, <1>8 DEF Token
  <2> HIDE DEF Plain
  <2> QED BY <1>3, <1>4, <1>6, <1>8, <2>1
<1>9. CASE c \in {"t", "f"}
  <2>1. scan(text, from) = Plain("value", <<"bool", c = "t">>)
    BY <1>5, <1>6, <1>9 DEF Token
  <2>2. c # EOF
    BY <1>9 DEF EOF
  <2> HIDE DEF Plain
  <2> QED BY <1>3, <1>4, <2>1, <2>2
<1>10. CASE c = "n"
  <2>1. scan(text, from) = Plain("value", <<"null", 0>>)
    BY <1>5, <1>6, <1>10 DEF Token
  <2> HIDE DEF Plain
  <2> QED BY <1>3, <1>4, <1>6, <1>10, <2>1
<1>11. CASE c = QUOTE
  <2>1. scan(text, from) = scan_string(text, i + 1)
    BY <1>5, <1>6, <1>11
  <2>2. c # EOF
    BY <1>6, <1>11
  <2>3. PICK j \in 1..(L + 1) : j = i + 1 /\ j > from
    BY <1>1, <1>2, <2>2
  <2>4. PICK t : t = scan_string(text, j)
    OBVIOUS
  <2>5. \/ t.t = "value" /\ t.v \in {"str"} \X Texts /\ t.next \in (j + 1)..(L + 1)
        \/ t.t = "parse_error" /\ t.v = <<"null", 0>> /\ t.next \in Nat /\ t.next > j - 1
    BY <2>4, ScanStringType
  <2>6. t.v \in Scalars
    BY <2>5 DEF Scalars
  <2>7. t.next \in Nat /\ t.next > from /\ (t.t = "value" => t.next <= L + 1)
    <3>1. CASE t.t = "value"
      <4>1. t.next \in (j + 1)..(L + 1)
        BY <2>5, <3>1
      <4> QED BY <1>1, <2>3, <4>1
    <3>2. CASE t.t # "value"
      <4>1. t.next \in Nat /\ t.next > j - 1
        BY <2>5, <3>2
      <4>2. j - 1 >= from
        BY <1>1, <2>3
      <4> QED BY <2>3, <3>2, <4>1, <4>2
    <3> QED BY <3>1, <3>2
  <2>8. IsToken(t, text, from)
    BY <1>7, <2>5, <2>6, <2>7 DEF IsToken
  <2> QED BY <2>1, <2>3, <2>4, <2>8
<1>12. CASE c \in Digits \cup {"-"}
  <2>1. scan(text, from) = scan_number(text, i)
    BY <1>5, <1>6, <1>12
  <2>2. i \in 1..L
    BY <1>2, <1>6, <1>12
  <2>3. PICK t : t = scan_number(text, i)
    OBVIOUS
  <2>4. /\ t.v \in Scalars /\ t.next \in Nat /\ t.next > i
        /\ t.t \in {"value", "overflow", "parse_error"}
        /\ t.t = "value" => t.next <= L + 1
    BY <2>2, <2>3, ScanNumberType
  <2>5. t.next > from
    BY <1>1, <2>4
  <2>6. IsToken(t, text, from)
    BY <1>7, <2>4, <2>5 DEF IsToken
  <2> QED BY <2>1, <2>3, <2>6
<1>13. CASE c \in {EOF, "NUL"}
  <2>1. scan(text, from) = Plain("end_of_input", <<"null", 0>>)
    BY <1>5, <1>6, <1>13 DEF Token
  <2> HIDE DEF Plain
  <2> QED BY <1>3, <1>4, <1>7, <2>1
<1>14. CASE c \notin Structural \cup {"t", "f", "n", QUOTE, EOF, "NUL", "-"} \cup Digits
  <2>1. scan(text, from) = Plain("parse_error", <<"null", 0>>)
    BY <1>5, <1>14 DEF ParseError, Token
  <2> HIDE DEF Plain
  <2> QED BY <1>3, <1>4, <1>7, <2>1
<1> QED BY <1>8, <1>9, <1>10, <1>11, <1>12, <1>13, <1>14

-----------------------------------------------------------------------------
(* The serializer.                                                            *)

\* Texts put together are texts.
LEMMA Joined ==
  ASSUME NEW s \in Texts, NEW t \in Texts
  PROVE  s \o t \in Texts
  BY ConcatProperties DEF Texts

\* A character is a text.
LEMMA OneCharacter ==
  ASSUME NEW c \in Character
  PROVE  <<c>> \in Texts
  BY Single DEF Texts

\* So is nothing.
LEMMA NoText == <<>> \in Texts
  BY EmptySeq DEF Texts

\* So is each of the characters that the serializer writes itself.
LEMMA LiteralTexts ==
  \A c \in Literals : <<c>> \in Texts
  BY OneCharacter DEF Character

\* dump_escaped gives a text.
LEMMA EscapedType ==
  ASSUME NEW s \in Texts
  PROVE  dump_escaped(s) \in Texts
<1> DEFINE q == [i \in 1..Len(s) |->
              CASE s[i] \in {QUOTE, BACKSLASH} -> <<BACKSLASH, s[i]>>
                [] s[i] = "LF"                 -> <<BACKSLASH, "n">>
                [] OTHER                       -> <<s[i]>>]
<1>1. Len(s) \in Nat /\ DOMAIN s = 1..Len(s)
  BY LenProperties DEF Texts
<1>2. ASSUME NEW i \in 1..Len(s) PROVE q[i] \in Texts
  <2>1. PICK c \in Character : c = s[i]
    BY ElementOfSeq DEF Texts
  <2>2. BACKSLASH \in Character /\ "n" \in Character
    BY DEF Character, Literals, BACKSLASH
  <2>3. <<BACKSLASH, c>> \in Texts /\ <<BACKSLASH, "n">> \in Texts /\ <<c>> \in Texts
    <3>1. ASSUME NEW a \in Character, NEW b \in Character PROVE <<a, b>> \in Texts
      BY DEF Texts
    <3> QED BY <2>2, <3>1, OneCharacter
  <2>4. QUOTE # "LF" /\ BACKSLASH # "LF"
    BY DEF QUOTE, BACKSLASH
  <2>5. \/ q[i] = <<BACKSLASH, c>> \/ q[i] = <<BACKSLASH, "n">> \/ q[i] = <<c>>
    BY <2>1, <2>4
  <2> HIDE DEF q
  <2> QED BY <2>3, <2>5
<1>3. q \in Seq(Texts)
  BY <1>1, <1>2, IsSeq
<1>4. dump_escaped(s) = FlattenSeq(q)
  BY <1>1 DEF dump_escaped
<1> HIDE DEF q
<1> QED BY <1>3, <1>4, FlattenSeqType DEF Texts

\* So does a quoted string.
LEMMA QuotedType ==
  ASSUME NEW s \in Texts
  PROVE  quoted(s) \in Texts
<1>1. PICK e \in Texts : e = dump_escaped(s)
  BY EscapedType
<1>2. <<QUOTE>> \in Texts
  BY LiteralTexts DEF Literals, QUOTE
<1>3. <<QUOTE>> \o e \in Texts
  BY <1>2, Joined
<1>4. (<<QUOTE>> \o e) \o <<QUOTE>> \in Texts
  BY <1>2, <1>3, Joined
<1> QED BY <1>1, <1>4 DEF quoted

\* So does dump_integer.
LEMMA IntegerType ==
  ASSUME NEW n \in Int
  PROVE  dump_integer(n) \in Texts
<1>1. <<"-">> \in Texts
  BY LiteralTexts DEF Literals
<1>2. CASE n < 0
  <2>1. PICK m \in Nat : m = -n
    BY <1>2
  <2>2. DigitsOf(m) \in Texts
    BY DigitsOfType
  <2>3. <<"-">> \o DigitsOf(m) \in Texts
    BY <1>1, <2>2, Joined
  <2> QED BY <1>2, <2>1, <2>3 DEF dump_integer
<1>3. CASE ~(n < 0)
  <2>1. n \in Nat
    BY <1>3
  <2> QED BY <1>3, <2>1, DigitsOfType DEF dump_integer
<1> QED BY <1>2, <1>3

\* So does append_exponent.
LEMMA ExponentType ==
  ASSUME NEW e \in Int
  PROVE  append_exponent(e) \in Texts
<1>1. PICK k \in Nat : k = IF e < 0 THEN -e ELSE e
  OBVIOUS
<1>2. PICK sign \in Texts : sign = <<IF e < 0 THEN "-" ELSE "+">>
  <2>1. <<"-">> \in Texts /\ <<"+">> \in Texts
    BY LiteralTexts DEF Literals
  <2>2. CASE e < 0
    BY <2>1, <2>2
  <2>3. CASE ~(e < 0)
    BY <2>1, <2>3
  <2> QED BY <2>2, <2>3
<1>3. PICK zero \in Texts : zero = IF k < 10 THEN <<"0">> ELSE <<>>
  <2>1. <<"0">> \in Texts
    BY LiteralTexts DEF Literals
  <2> QED BY <2>1, NoText
<1>4. PICK d \in Texts : d = DigitsOf(k)
  BY DigitsOfType
<1>5. (sign \o zero) \o d \in Texts
  BY Joined
<1>6. append_exponent(e) = (sign \o zero) \o d
  BY <1>1, <1>2, <1>3, <1>4 DEF append_exponent
<1> QED BY <1>5, <1>6

\* So does format_buffer.
LEMMA BufferType ==
  ASSUME NEW digits \in Texts, digits # <<>>, NEW n \in Int
  PROVE  format_buffer(digits, n) \in Texts
<1> DEFINE k == Len(digits)
           zeros(m) == [i \in 1..m |-> "0"]
<1>1. k \in Nat /\ k # 0
  BY LenProperties, EmptySeq DEF Texts
<1>2. ASSUME NEW m \in Nat PROVE zeros(m) \in Texts
  <2>1. zeros(m) \in [1..m -> Character]
    BY DEF Character, Literals
  <2> HIDE DEF zeros
  <2> QED BY <2>1, IsSeq DEF Texts
<1> HIDE DEF zeros
<1>3. <<".">> \in Texts /\ <<".", "0">> \in Texts /\ <<"0", ".">> \in Texts /\ <<"e">> \in Texts
  <2>1. "0" \in Character /\ "." \in Character /\ "e" \in Character
    BY DEF Character, Literals
  <2>2. ASSUME NEW a \in Character, NEW b \in Character PROVE <<a, b>> \in Texts
    BY DEF Texts
  <2> QED BY <2>1, <2>2, OneCharacter
<1>4. CASE k <= n /\ n <= kMaxExp
  <2>1. PICK m \in Nat : m = n - k
    BY <1>1, <1>4
  <2>2. (digits \o zeros(m)) \o <<".", "0">> \in Texts
    BY <1>2, <1>3, Joined
  <2>3. ~(n < k) /\ ~(n <= 0)
    BY <1>1, <1>4
  <2>4. format_buffer(digits, n) = (digits \o zeros(n - k)) \o <<".", "0">>
    BY <1>4, <2>3, Zenon DEF format_buffer, zeros
  <2> QED BY <2>1, <2>2, <2>4
<1>5. CASE 0 < n /\ n < k /\ n <= kMaxExp
  <2>1. PICK s \in Texts : s = SubSeq(digits, 1, n)
    <3>1. 1 \in 1..(k + 1) /\ n \in (1 - 1)..k
      BY <1>1, <1>5
    <3> QED BY <3>1, Parts
  <2>2. PICK t \in Texts : t = SubSeq(digits, n + 1, k)
    <3>1. n + 1 \in 1..(k + 1) /\ k \in ((n + 1) - 1)..k
      BY <1>1, <1>5
    <3> QED BY <3>1, Parts
  <2>3. (s \o <<".">>) \o t \in Texts
    BY <1>3, Joined
  <2>4. ~(k <= n) /\ ~(n <= 0)
    BY <1>1, <1>5
  <2>5. format_buffer(digits, n) = (s \o <<".">>) \o t
    BY <1>5, <2>1, <2>2, <2>4, Zenon DEF format_buffer
  <2> QED BY <2>3, <2>5
<1>6. CASE kMinExp < n /\ n <= 0
  <2>1. PICK m \in Nat : m = -n
    BY <1>6
  <2>2. (<<"0", ".">> \o zeros(m)) \o digits \in Texts
    BY <1>2, <1>3, Joined
  <2>3. format_buffer(digits, n) = (<<"0", ".">> \o zeros(m)) \o digits
    BY <1>1, <1>6, <2>1 DEF format_buffer, zeros
  <2> QED BY <2>2, <2>3
<1>7. CASE /\ ~(k <= n /\ n <= kMaxExp) /\ ~(0 < n /\ n < k /\ n <= kMaxExp)
           /\ ~(kMinExp < n /\ n <= 0)
  <2>1. <<digits[1]>> \in Texts
    <3>1. digits[1] \in Character
      BY <1>1, ElementOfSeq DEF Texts
    <3> QED BY <3>1, OneCharacter
  <2>2. PICK rest \in Texts : rest = IF k = 1 THEN <<>> ELSE <<".">> \o Tail(digits)
    <3>1. Tail(digits) \in Texts
      BY HeadTailProperties DEF Texts
    <3>2. <<".">> \o Tail(digits) \in Texts
      BY <1>3, <3>1, Joined
    <3> QED BY <3>2, NoText
  <2>3. PICK x \in Texts : x = append_exponent(n - 1)
    <3>1. n - 1 \in Int
      OBVIOUS
    <3> QED BY <3>1, ExponentType
  <2>4. ((<<digits[1]>> \o rest) \o <<"e">>) \o x \in Texts
    <3>1. <<digits[1]>> \o rest \in Texts
      BY <2>1, Joined
    <3>2. (<<digits[1]>> \o rest) \o <<"e">> \in Texts
      BY <1>3, <3>1, Joined
    <3> QED BY <3>2, Joined
  <2>5. format_buffer(digits, n) = ((<<digits[1]>> \o rest) \o <<"e">>) \o x
    BY <1>7, <2>2, <2>3 DEF format_buffer
  <2> QED BY <2>4, <2>5
<1> QED BY <1>4, <1>5, <1>6, <1>7

\* So does dump_float.
LEMMA DumpFloatType ==
  ASSUME NEW f \in Floats
  PROVE  dump_float(f) \in Texts
<1>1. f.digits \in Texts /\ f.point \in Int
  BY DEF Floats
<1>2. PICK sign \in Texts : sign = IF f.neg THEN <<"-">> ELSE <<>>
  <2>1. <<"-">> \in Texts
    BY LiteralTexts DEF Literals
  <2> QED BY <2>1, NoText
<1>3. PICK b \in Texts : b = IF f.digits = <<>> THEN <<"0", ".", "0">>
                             ELSE format_buffer(f.digits, f.point)
  <2>1. <<"0", ".", "0">> \in Texts
    <3>1. "0" \in Character /\ "." \in Character
      BY DEF Character, Literals
    <3>2. ASSUME NEW a \in Character, NEW c \in Character, NEW d \in Character
          PROVE  <<a, c, d>> \in Texts
      BY DEF Texts
    <3> QED BY <3>1, <3>2
  <2>2. f.digits # <<>> => format_buffer(f.digits, f.point) \in Texts
    BY <1>1, BufferType
  <2> QED BY <2>1, <2>2
<1>4. sign \o b \in Texts
  BY Joined
<1> QED BY <1>2, <1>3, <1>4 DEF dump_float

\* A value holds values, and holds them less deeply nested than itself: S is the
\* set of values that are there, r how deep each one goes.
Nested(S, r) ==
  /\ Scalars \subseteq S /\ r \in [S -> Nat]
  /\ \A x \in S :
        \/ x \in Scalars
        \/ \E s \in Seq(S) : x = <<"arr", s>> /\ \A i \in 1..Len(s) : r[s[i]] < r[x]
        \/ \E D \in SUBSET Texts : \E f \in [D -> S] :
              x = <<"obj", f>> /\ \A k \in D : r[f[k]] < r[x]

\* The pieces of a value at most m deep.
TextPieces == {"text"} \X Texts

\* Values of a rank below m, and pieces of text.
Below(S, r, m) == {x \in S : r[x] < m} \cup TextPieces

\* A text is such a piece.
LEMMA TextPiece ==
  ASSUME NEW S, NEW r, NEW m, NEW s \in Texts
  PROVE  Text(s) \in Below(S, r, m) /\ <<Text(s)>> \in Seq(Below(S, r, m))
<1>1. Text(s) \in Below(S, r, m)
  BY DEF Below, TextPieces, Text
<1> QED BY <1>1, Single

\* A scalar is written as one text.
LEMMA ScalarPieces ==
  ASSUME NEW x \in Scalars
  PROVE  \E s \in Texts : Pieces(x) = <<Text(s)>>
<1>1. CASE x = <<"null", 0>>
  <2>1. <<"n">> \in Texts
    BY LiteralTexts DEF Literals
  <2>2. Pieces(x) = <<Text(<<"n">>)>>
    BY <1>1 DEF Pieces
  <2> QED BY <2>1, <2>2
<1>2. CASE x \in {"bool"} \X BOOLEAN
  <2>1. <<"t">> \in Texts /\ <<"f">> \in Texts
    BY LiteralTexts DEF Literals
  <2>2. Pieces(x) = <<Text(<<IF x[2] THEN "t" ELSE "f">>)>>
    BY <1>2 DEF Pieces
  <2>3. <<IF x[2] THEN "t" ELSE "f">> \in Texts
    BY <2>1
  <2> QED BY <2>2, <2>3
<1>3. CASE x \in {"int"} \X Int
  <2>1. PICK n \in Int : x = <<"int", n>>
    BY <1>3
  <2>2. Pieces(x) = <<Text(dump_integer(n))>>
    BY <2>1 DEF Pieces
  <2> QED BY <2>2, IntegerType
<1>4. CASE x \in {"str"} \X Texts
  <2>1. PICK s \in Texts : x = <<"str", s>>
    BY <1>4
  <2>2. Pieces(x) = <<Text(quoted(s))>>
    BY <2>1 DEF Pieces
  <2> QED BY <2>2, QuotedType
<1>5. CASE x \in {"float"} \X Floats
  <2>1. PICK f \in Floats : x = <<"float", f>>
    BY <1>5
  <2>2. Pieces(x) = <<Text(dump_float(f))>>
    BY <2>1 DEF Pieces
  <2> QED BY <2>2, DumpFloatType
<1> QED BY <1>1, <1>2, <1>3, <1>4, <1>5 DEF Scalars

\* The separator in front of an element is a text.
LEMMA CommaType ==
  ASSUME NEW i
  PROVE  Comma(i) \in Texts
<1>1. <<",">> \in Texts
  BY LiteralTexts DEF Literals
<1> QED BY <1>1, NoText DEF Comma

\* The keys of an object.
LEMMA KeysOfType ==
  ASSUME NEW D \in SUBSET Texts, NEW f, DOMAIN f = D
  PROVE  KeysOf(f) \in Seq(D)
<1>1. Names \in Seq(Seq(STRING))
  BY TextAssumption
<1>2. Keep(Names, D) \in Seq(Seq(STRING) \cap D)
  BY <1>1, KeepType
<1>3. Keep(Names, D) \in Seq(D)
  BY <1>2
<1> QED BY <1>3 DEF KeysOf

\* The pieces of an array are texts and its elements.
LEMMA ArrayPieces ==
  ASSUME NEW S, NEW r, NEW m \in Nat, NEW s \in Seq(S),
         \A i \in 1..Len(s) : s[i] \in Below(S, r, m)
  PROVE  Pieces(<<"arr", s>>) \in Seq(Below(S, r, m))
<1> DEFINE q == [i \in 1..Len(s) |-> <<Text(Comma(i)), s[i]>>]
<1>1. Len(s) \in Nat /\ DOMAIN s = 1..Len(s)
  BY LenProperties
<1>2. ASSUME NEW i \in 1..Len(s) PROVE q[i] \in Seq(Below(S, r, m))
  <2>1. Text(Comma(i)) \in Below(S, r, m)
    BY CommaType, TextPiece
  <2>2. ASSUME NEW a \in Below(S, r, m), NEW b \in Below(S, r, m) PROVE <<a, b>> \in Seq(Below(S, r, m))
    OBVIOUS
  <2>3. s[i] \in Below(S, r, m)
    OBVIOUS
  <2>4. q[i] = <<Text(Comma(i)), s[i]>>
    OBVIOUS
  <2> HIDE DEF q
  <2> QED BY <2>1, <2>2, <2>3, <2>4
<1>3. q \in Seq(Seq(Below(S, r, m)))
  BY <1>1, <1>2, IsSeq
<1>4. Pieces(<<"arr", s>>) = (<<Text(<<"[">>)>> \o FlattenSeq(q)) \o <<Text(<<"]">>)>>
  BY <1>1 DEF Pieces
<1> HIDE DEF q
<1>5. FlattenSeq(q) \in Seq(Below(S, r, m))
  BY <1>3, FlattenSeqType
<1>6. <<Text(<<"[">>)>> \in Seq(Below(S, r, m)) /\ <<Text(<<"]">>)>> \in Seq(Below(S, r, m))
  <2>1. <<"[">> \in Texts /\ <<"]">> \in Texts
    BY LiteralTexts DEF Literals
  <2> QED BY <2>1, TextPiece
<1> QED BY <1>4, <1>5, <1>6, ConcatProperties, ZenonT(40)

\* The pieces of an object are texts and the values of its members.
LEMMA ObjectPieces ==
  ASSUME NEW S, NEW r, NEW m \in Nat, NEW D \in SUBSET Texts, NEW f \in [D -> S],
         \A k \in D : f[k] \in Below(S, r, m)
  PROVE  Pieces(<<"obj", f>>) \in Seq(Below(S, r, m))
<1> DEFINE keys == KeysOf(f)
           member(i) == Text((Comma(i) \o quoted(keys[i])) \o <<":">>)
           q == [i \in 1..Len(keys) |-> <<member(i), f[keys[i]]>>]
<1>1. keys \in Seq(D)
  BY KeysOfType
<1>2. Len(keys) \in Nat /\ DOMAIN keys = 1..Len(keys)
  BY <1>1, LenProperties
<1>3. Pieces(<<"obj", f>>) = (<<Text(<<"{">>)>> \o FlattenSeq(q)) \o <<Text(<<"}">>)>>
  <2> HIDE DEF keys
  <2>1. KeysOf(f) = keys
    BY DEF keys
  <2> QED BY <1>2, <2>1 DEF Pieces
<1> HIDE DEF keys
<1>4. ASSUME NEW i \in 1..Len(keys) PROVE q[i] \in Seq(Below(S, r, m))
  <2>1. PICK k \in D : k = keys[i]
    BY <1>1, ElementOfSeq
  <2>2. (Comma(i) \o quoted(k)) \o <<":">> \in Texts
    <3>1. Comma(i) \o quoted(k) \in Texts
      BY CommaType, QuotedType, Joined
    <3>2. <<":">> \in Texts
      BY LiteralTexts DEF Literals
    <3> QED BY <3>1, <3>2, Joined
  <2>3. member(i) \in Below(S, r, m)
    BY <2>1, <2>2, TextPiece
  <2>4. f[keys[i]] \in Below(S, r, m)
    BY <2>1
  <2>5. ASSUME NEW a \in Below(S, r, m), NEW b \in Below(S, r, m) PROVE <<a, b>> \in Seq(Below(S, r, m))
    OBVIOUS
  <2>6. q[i] = <<member(i), f[keys[i]]>>
    OBVIOUS
  <2> HIDE DEF q, member
  <2> QED BY <2>3, <2>4, <2>5, <2>6
<1>5. q \in Seq(Seq(Below(S, r, m)))
  <2> HIDE DEF member
  <2> QED BY <1>2, <1>4, IsSeq
<1> HIDE DEF q
<1>6. FlattenSeq(q) \in Seq(Below(S, r, m))
  BY <1>5, FlattenSeqType
<1>7. <<Text(<<"{">>)>> \in Seq(Below(S, r, m)) /\ <<Text(<<"}">>)>> \in Seq(Below(S, r, m))
  <2>1. <<"{">> \in Texts /\ <<"}">> \in Texts
    BY LiteralTexts DEF Literals
  <2> QED BY <2>1, TextPiece
<1> QED BY <1>3, <1>6, <1>7, ConcatProperties, ZenonT(40)

\* What a value is written as: text, and values less deeply nested.
LEMMA PiecesType ==
  ASSUME NEW S, NEW r, Nested(S, r), NEW m \in Nat, NEW x \in Below(S, r, m + 1)
  PROVE  Pieces(x) \in Seq(Below(S, r, m))
<1>1. CASE x \in TextPieces
  <2>1. Pieces(x) = <<x>>
    BY <1>1 DEF Pieces, TextPieces
  <2>2. x \in Below(S, r, m)
    BY <1>1 DEF Below
  <2> QED BY <2>1, <2>2, Single
<1>2. CASE x \in Scalars
  BY <1>2, ScalarPieces, TextPiece
<1>3. ASSUME NEW s \in Seq(S), x = <<"arr", s>>, x \in S, r[x] < m + 1,
             \A i \in 1..Len(s) : r[s[i]] < r[x]
      PROVE  Pieces(x) \in Seq(Below(S, r, m))
  <2>1. ASSUME NEW i \in 1..Len(s) PROVE s[i] \in Below(S, r, m)
    <3>1. s[i] \in S
      BY ElementOfSeq
    <3>2. r[s[i]] \in Nat /\ r[x] \in Nat
      BY <1>3, <3>1 DEF Nested
    <3>3. r[s[i]] < m
      <4>1. PICK a \in Nat, b \in Nat : a = r[s[i]] /\ b = r[x]
        BY <3>2
      <4>2. a < b /\ b < m + 1
        BY <1>3, <4>1
      <4>3. a < m
        BY <4>2
      <4> QED BY <4>1, <4>3
    <3> QED BY <3>1, <3>3 DEF Below
  <2> QED BY <1>3, <2>1, ArrayPieces
<1>4. ASSUME NEW D \in SUBSET Texts, NEW f \in [D -> S], x = <<"obj", f>>, x \in S, r[x] < m + 1,
             \A k \in D : r[f[k]] < r[x]
      PROVE  Pieces(x) \in Seq(Below(S, r, m))
  <2>1. ASSUME NEW k \in D PROVE f[k] \in Below(S, r, m)
    <3>1. f[k] \in S
      OBVIOUS
    <3>2. r[f[k]] \in Nat /\ r[x] \in Nat
      BY <1>4, <3>1 DEF Nested
    <3>3. r[f[k]] < m
      <4>1. PICK a \in Nat, b \in Nat : a = r[f[k]] /\ b = r[x]
        BY <3>2
      <4>2. a < b /\ b < m + 1
        BY <1>4, <4>1
      <4>3. a < m
        BY <4>2
      <4> QED BY <4>1, <4>3
    <3> QED BY <3>1, <3>3 DEF Below
  <2> QED BY <1>4, <2>1, ObjectPieces
<1>5. CASE x \in S /\ x \notin Scalars /\ r[x] < m + 1
  BY <1>3, <1>4, <1>5 DEF Nested
<1> QED BY <1>1, <1>2, <1>5 DEF Below

\* The first element of a value or of a text tells which it is.
LEMMA NoValueIsText ==
  ASSUME NEW S, NEW r, Nested(S, r), NEW x \in S
  PROVE  x[1] # "text"
<1>1. CASE x \in Scalars
  BY <1>1 DEF Scalars
<1>2. CASE \E s : x = <<"arr", s>> \/ x = <<"obj", s>>
  BY <1>2
<1> QED BY <1>1, <1>2 DEF Nested

\* Unfolding replaces each value by pieces of a lower rank.
LEMMA UnfoldType ==
  ASSUME NEW S, NEW r, Nested(S, r), NEW m \in Nat, NEW p \in Seq(Below(S, r, m + 1))
  PROVE  Unfold(p) \in Seq(Below(S, r, m))
<1>1. Len(p) \in Nat /\ DOMAIN p = 1..Len(p) /\ \A i \in 1..Len(p) : p[i] \in Below(S, r, m + 1)
  BY LenProperties, ElementOfSeq
<1>2. CASE \A i \in 1..Len(p) : p[i][1] = "text"
  <2>1. ASSUME NEW i \in 1..Len(p) PROVE p[i] \in Below(S, r, m)
    <3>1. p[i] \notin S
      BY <1>2, NoValueIsText
    <3> QED BY <1>1, <3>1 DEF Below
  <2>2. Unfold(p) = p
    BY <1>1, <1>2 DEF Unfold
  <2>3. p = [i \in 1..Len(p) |-> p[i]]
    BY LenProperties
  <2>4. p \in [1..Len(p) -> Below(S, r, m)]
    BY <2>1, <2>3
  <2> QED BY <1>1, <2>2, <2>4, IsSeq
<1>3. CASE ~(\A i \in 1..Len(p) : p[i][1] = "text")
  <2> DEFINE q == [i \in 1..Len(p) |-> Pieces(p[i])]
  <2>1. Unfold(p) = FlattenSeq(q)
    BY <1>1, <1>3 DEF Unfold
  <2>2. ASSUME NEW i \in 1..Len(p) PROVE q[i] \in Seq(Below(S, r, m))
    BY <1>1, PiecesType
  <2>3. q \in Seq(Seq(Below(S, r, m)))
    BY <1>1, <2>2, IsSeq
  <2> HIDE DEF q
  <2> QED BY <2>1, <2>3, FlattenSeqType
<1> QED BY <1>2, <1>3

-----------------------------------------------------------------------------
(* Texts in texts.                                                            *)

\* FlattenSeqFacts, with a name for what it gives.
JoinsFirst(f, S, q) == /\ f \in [1..Len(q) -> Seq(S)] /\ FlattenSeq(q) = f[Len(q)] /\ f[1] = q[1]
                       /\ \A i \in 2..Len(q) : f[i] = f[i - 1] \o q[i]

\* A sequence that joins the parts of q from the left exists.
LEMMA FlattenSeqJoinsFirst ==
  ASSUME NEW S, NEW q \in Seq(Seq(S)), Len(q) # 0
  PROVE  \E f : JoinsFirst(f, S, q)
<1>1. \E f \in [1..Len(q) -> Seq(S)] :
            /\ FlattenSeq(q) = f[Len(q)] /\ f[1] = q[1]
            /\ \A i \in 2..Len(q) : f[i] = f[i - 1] \o q[i]
  BY FlattenSeqFacts
<1> QED BY <1>1 DEF JoinsFirst

\* FlattenSeq is the only way to join sequences one by one.
LEMMA FlattenSeqIs ==
  ASSUME NEW S, NEW q \in Seq(Seq(S)), NEW n \in Nat, Len(q) = n, NEW g \in [0..n -> Seq(S)],
         g[0] = <<>>, \A i \in 1..n : g[i] = g[i - 1] \o q[i]
  PROVE  FlattenSeq(q) = g[n]
<1>1. CASE n = 0
  <2>1. q = <<>>
    BY <1>1, EmptySeq
  <2> QED BY <1>1, <2>1 DEF FlattenSeq
<1>2. CASE n # 0
  <2>1. PICK f \in [1..n -> Seq(S)] :
            /\ FlattenSeq(q) = f[n] /\ f[1] = q[1]
            /\ \A i \in 2..n : f[i] = f[i - 1] \o q[i]
    <3>1. Len(q) # 0
      BY <1>2
    <3>2. PICK f : JoinsFirst(f, S, q)
      BY <3>1, FlattenSeqJoinsFirst
    <3> QED BY <3>2 DEF JoinsFirst
  <2> DEFINE P == {i \in Nat : i + 1 <= n => f[i + 1] = g[i + 1]}
  <2>2. 0 \in P
    <3>1. 1 \in 1..Len(q) /\ 1 \in 1..n
      BY <1>2
    <3>2. q[1] \in Seq(S)
      BY <3>1, ElementOfSeq
    <3>3. g[1] = g[1 - 1] \o q[1]
      BY <3>1
    <3>4. 1 - 1 = 0 /\ 0 + 1 = 1
      OBVIOUS
    <3>5. g[1] = q[1]
      BY <3>2, <3>4, <3>3, ConcatEmptySeq
    <3> QED BY <2>1, <3>4, <3>5
  <2>3. ASSUME NEW i \in Nat, i \in P PROVE i + 1 \in P
    <3> SUFFICES ASSUME (i + 1) + 1 <= n PROVE f[(i + 1) + 1] = g[(i + 1) + 1]
      OBVIOUS
    <3>1. PICK k \in 2..n : k = (i + 1) + 1 /\ k - 1 = i + 1 /\ k \in 1..n
      OBVIOUS
    <3>2. f[k - 1] = g[k - 1]
      BY <2>3, <3>1
    <3>3. f[k] = f[k - 1] \o q[k] /\ g[k] = g[k - 1] \o q[k]
      BY <2>1, <3>1
    <3> QED BY <3>1, <3>2, <3>3
  <2>4. \A i \in Nat : i \in P
    <3> HIDE DEF P
    <3> QED BY <2>2, <2>3, Induction
  <2>5. n - 1 \in Nat /\ (n - 1) + 1 = n
    BY <1>2
  <2>6. n - 1 \in P
    <3> HIDE DEF P
    <3> QED BY <2>4, <2>5
  <2> QED BY <2>1, <2>5, <2>6
<1> QED BY <1>1, <1>2

\* What the first i sequences give, for all i.
Joins(g, S, q, n) == /\ g \in [0..n -> Seq(S)] /\ g[0] = <<>>
                     /\ \A i \in 1..n : g[i] = g[i - 1] \o q[i]

\* FlattenSeq is the last of it.
LEMMA FlattenSeqJoins ==
  ASSUME NEW S, NEW q \in Seq(Seq(S))
  PROVE  \E g : Joins(g, S, q, Len(q)) /\ FlattenSeq(q) = g[Len(q)]
<1> DEFINE n == Len(q)
           step == [i \in Nat |-> [s \in Seq(S) |-> IF i \in 1..n THEN s \o q[i] ELSE s]]
<1>1. n \in Nat /\ 0 \in Nat /\ <<>> \in Seq(S) /\ \A i \in 1..n : q[i] \in Seq(S)
  BY LenProperties, ElementOfSeq, EmptySeq
<1>2. step \in Steps(Seq(S))
  <2>1. ASSUME NEW i \in Nat, NEW s \in Seq(S)
        PROVE  (IF i \in 1..n THEN s \o q[i] ELSE s) \in Seq(S)
    BY <1>1, ConcatProperties
  <2> QED BY <2>1 DEF Steps
<1>3. \A i \in Nat, s \in Seq(S) : i \in 1..n => step[i][s] = s \o q[i]
  BY <1>1
<1> HIDE DEF n, step
<1>4. PICK a \in Seq(S) : a = <<>>
  BY <1>1
<1>5. PICK g : RecursFrom(g, Seq(S), 0, n, a, step)
  <2>1. \E g : RecursFrom(g, Seq(S), 0, n, a, step)
    BY <1>1, <1>2, IntervalRecursion
  <2> QED BY <2>1
<1>6. /\ g \in [0..n -> Seq(S)]
      /\ g = [k \in 0..n |-> IF k = 0 THEN a ELSE step[k][g[k - 1]]]
  BY <1>5 DEF RecursFrom
<1>7. g[0] = <<>>
  BY <1>1, <1>4, <1>6
<1>8. ASSUME NEW i \in 1..n PROVE g[i] = g[i - 1] \o q[i]
  <2>1. i \in 0..n /\ i # 0 /\ i - 1 \in 0..n /\ i \in Nat
    BY <1>1
  <2>2. g[i] = step[i][g[i - 1]]
    BY <1>6, <2>1
  <2>3. g[i - 1] \in Seq(S)
    BY <1>6, <2>1
  <2> QED BY <1>3, <2>1, <2>2, <2>3
<1>9. Joins(g, S, q, n)
  BY <1>6, <1>7, <1>8 DEF Joins
<1>10. FlattenSeq(q) = g[n]
  BY <1>1, <1>6, <1>7, <1>8, FlattenSeqIs DEF n
<1> QED BY <1>9, <1>10 DEF n

\* FlattenSeq of two joined sequences joins what it gives for each.
LEMMA FlattenSeqJoined ==
  ASSUME NEW S, NEW a \in Seq(Seq(S)), NEW b \in Seq(Seq(S))
  PROVE  FlattenSeq(a \o b) = FlattenSeq(a) \o FlattenSeq(b)
<1>1. PICK m \in Nat, n \in Nat : m = Len(a) /\ n = Len(b)
  BY LenProperties
<1>2. PICK f : Joins(f, S, a, m) /\ FlattenSeq(a) = f[m]
  BY <1>1, FlattenSeqJoins
<1>3. PICK g : Joins(g, S, b, n) /\ FlattenSeq(b) = g[n]
  BY <1>1, FlattenSeqJoins
<1>4. PICK q \in Seq(Seq(S)) : q = a \o b /\ Len(q) = m + n
                               /\ \A i \in 1..(m + n) : q[i] = IF i <= m THEN a[i] ELSE b[i - m]
  <2>1. PICK q \in Seq(Seq(S)) : q = a \o b
    BY ConcatProperties
  <2>2. /\ Len(q) = Len(a) + Len(b)
        /\ \A i \in 1..(Len(a) + Len(b)) : q[i] = IF i <= Len(a) THEN a[i] ELSE b[i - Len(a)]
    BY <2>1, ConcatProperties
  <2> QED BY <1>1, <2>1, <2>2
<1> DEFINE h == [i \in 0..(m + n) |-> IF i <= m THEN f[i] ELSE f[m] \o g[i - m]]
<1>5. \A i \in 0..m : f[i] \in Seq(S)
  BY <1>2 DEF Joins
<1>6. \A i \in 0..n : g[i] \in Seq(S)
  BY <1>3 DEF Joins
<1>7. ASSUME NEW i \in 0..(m + n) PROVE h[i] \in Seq(S)
  <2>1. CASE i <= m
    BY <1>5, <2>1
  <2>2. CASE ~(i <= m)
    <3>1. i - m \in 0..n /\ m \in 0..m
      BY <2>2
    <3>2. f[m] \o g[i - m] \in Seq(S)
      BY <1>5, <1>6, <3>1, ConcatProperties
    <3> QED BY <2>2, <3>2
  <2> QED BY <2>1, <2>2
<1>8. h[0] = <<>> /\ h \in [0..(m + n) -> Seq(S)]
  <2>1. h \in [0..(m + n) -> Seq(S)]
    BY <1>7
  <2>2. 0 \in 0..(m + n) /\ 0 <= m
    OBVIOUS
  <2>3. f[0] = <<>>
    BY <1>2 DEF Joins
  <2> QED BY <2>1, <2>2, <2>3
<1>9. ASSUME NEW i \in 1..(m + n) PROVE h[i] = h[i - 1] \o q[i]
  <2>1. i \in 0..(m + n) /\ i - 1 \in 0..(m + n) /\ i \in Nat
    OBVIOUS
  <2>2. CASE i <= m
    <3>1. i \in 1..m /\ i - 1 <= m
      BY <2>2
    <3>2. f[i] = f[i - 1] \o a[i]
      BY <1>2, <3>1 DEF Joins
    <3>3. q[i] = a[i]
      BY <1>4, <2>2
    <3> QED BY <2>1, <2>2, <3>1, <3>2, <3>3
  <2>3. CASE ~(i <= m)
    <3>1. PICK j \in 1..n : j = i - m /\ j - 1 = (i - 1) - m /\ j \in 0..n /\ j - 1 \in 0..n
      BY <2>3
    <3>2. h[i] = f[m] \o g[j]
      BY <2>1, <2>3, <3>1
    <3>3. g[j] = g[j - 1] \o b[j] /\ b[j] \in Seq(S)
      BY <1>1, <1>3, <3>1, ElementOfSeq DEF Joins
    <3>4. q[i] = b[j]
      BY <1>4, <2>3, <3>1
    <3>5. f[m] \in Seq(S) /\ g[j - 1] \in Seq(S)
      BY <1>5, <1>6, <3>1
    <3>6. h[i - 1] = f[m] \o g[j - 1]
      <4>1. CASE j = 1
        <5>1. i - 1 <= m /\ i - 1 = m /\ j - 1 = 0
          BY <2>3, <3>1, <4>1
        <5>2. g[0] = <<>>
          BY <1>3 DEF Joins
        <5>3. f[m] \o <<>> = f[m]
          BY <3>5, ConcatEmptySeq
        <5> QED BY <2>1, <5>1, <5>2, <5>3
      <4>2. CASE j # 1
        <5>1. ~(i - 1 <= m)
          BY <2>3, <3>1, <4>2
        <5> QED BY <2>1, <3>1, <5>1
      <4> QED BY <4>1, <4>2
    <3>7. (f[m] \o g[j - 1]) \o b[j] = f[m] \o (g[j - 1] \o b[j])
      <4>1. PICK x \in Seq(S), y \in Seq(S), z \in Seq(S) : x = f[m] /\ y = g[j - 1] /\ z = b[j]
        BY <3>3, <3>5
      <4>2. (x \o y) \o z = x \o (y \o z)
        BY ConcatAssociative, SMTT(30)
      <4> QED BY <4>1, <4>2
    <3> HIDE DEF h
    <3> QED BY <3>2, <3>3, <3>4, <3>6, <3>7
  <2> QED BY <2>2, <2>3
<1>10. h[m + n] = f[m] \o g[n]
  <2>1. CASE n = 0
    <3>1. m + n <= m /\ m + n = m /\ m + n \in 0..(m + n)
      BY <2>1
    <3>2. g[0] = <<>>
      BY <1>3 DEF Joins
    <3>3. f[m] \in Seq(S)
      BY <1>5
    <3>4. f[m] \o <<>> = f[m]
      BY <3>3, ConcatEmptySeq
    <3> QED BY <2>1, <3>1, <3>2, <3>4
  <2>2. CASE n # 0
    <3>1. ~(m + n <= m) /\ (m + n) - m = n /\ m + n \in 0..(m + n)
      BY <2>2
    <3> QED BY <3>1
  <2> QED BY <2>1, <2>2
<1> HIDE DEF h
<1>11. FlattenSeq(q) = h[m + n]
  <2>1. m + n \in Nat
    OBVIOUS
  <2> QED BY <1>4, <1>8, <1>9, <2>1, FlattenSeqIs
<1> QED BY <1>2, <1>3, <1>4, <1>10, <1>11

\* FlattenSeq of one part is that part.
LEMMA FlattenSeqOne ==
  ASSUME NEW S, NEW s \in Seq(S)
  PROVE  FlattenSeq(<<s>>) = s
<1>1. <<s>> \in Seq(Seq(S)) /\ Len(<<s>>) = 1 /\ <<s>>[1] = s
  BY Single
<1>2. PICK q \in Seq(Seq(S)) : q = <<s>> /\ Len(q) = 1 /\ q[1] = s
  BY <1>1
<1>3. Len(q) # 0
  BY <1>2
<1>4. PICK f \in [1..1 -> Seq(S)] : FlattenSeq(q) = f[1] /\ f[1] = q[1]
  BY <1>2, <1>3, FlattenSeqFacts
<1> QED BY <1>2, <1>4

\* t is what text has behind its first p characters.
Spells(text, p, t) == p + Len(t) <= Len(text) /\ \A j \in 1..Len(t) : text[p + j] = t[j]

\* What text spells is a subsequence of it.
LEMMA SpellsSub ==
  ASSUME NEW text \in Texts, NEW p \in Nat, NEW t \in Texts, Spells(text, p, t)
  PROVE  SubSeq(text, p + 1, p + Len(t)) = t
<1>1. PICK n \in Nat : n = Len(t)
  BY LenProperties DEF Texts
<1>2. Len(text) \in Nat /\ p + n <= Len(text)
  BY <1>1, LenProperties DEF Texts, Spells
<1>3. \A i \in (p + 1)..(p + n) : text[i] \in Character
  BY <1>2, ElementOfSeq DEF Texts
<1>4. PICK u : u = SubSeq(text, p + 1, p + n)
  OBVIOUS
<1>5. /\ u \in Seq(Character) /\ Len(u) = (IF p + 1 <= p + n THEN (p + n) - (p + 1) + 1 ELSE 0)
      /\ \A i \in 1..((p + n) - (p + 1) + 1) : u[i] = text[(p + 1) + i - 1]
  BY <1>3, <1>4, SubSeqProperties
<1>6. Len(u) = n
  BY <1>5
<1>7. ASSUME NEW i \in 1..n PROVE u[i] = t[i]
  <2>1. i \in 1..((p + n) - (p + 1) + 1) /\ (p + 1) + i - 1 = p + i
    OBVIOUS
  <2> QED BY <1>1, <1>5, <2>1 DEF Spells
<1> QED BY <1>1, <1>4, <1>5, <1>6, <1>7, SeqEqual DEF Texts

-----------------------------------------------------------------------------
(* Numbers: the automaton.                                                    *)

\* The labels of the automaton over the characters of the text, and where it stops.
RunsOver(label, stop, text, i) ==
  /\ label \in [i..(Len(text) + 2) -> Labels] /\ label[i] = "init"
  /\ \A k \in (i + 1)..(Len(text) + 2) : label[k] = goto(label[k - 1], get(text, k - 1))
  /\ stop \in i..(Len(text) + 2) /\ label[stop] \in {"done", "error"}
  /\ \A j \in i..(stop - 1) : label[j] \notin {"done", "error"}
  /\ label[i + 1] \notin {"done", "error"}
  /\ RunNumber(text, i) = [end |-> label[stop], at |-> stop - 1]

\* RunNumber is given by the labels of such a run.
LEMMA RunNumberFacts ==
  ASSUME NEW S, NEW text \in Seq(S), NEW i \in 1..Len(text)
  PROVE  \E label, stop : RunsOver(label, stop, text, i)
<1> DEFINE L == Len(text)
           hi == L + 2
           label[k \in i..hi] == IF k = i THEN "init" ELSE goto(label[k - 1], get(text, k - 1))
           step == [k \in Nat |-> [l \in Labels |-> goto(l, get(text, k - 1))]]
<1>1. L \in Nat /\ i \in Nat /\ i <= L /\ hi \in Nat /\ hi = L + 2 /\ "init" \in Labels
  BY LenProperties DEF Labels
<1>2. step \in Steps(Labels)
  <2>1. Inner \subseteq Labels
    BY DEF Labels
  <2> QED BY <2>1, GotoType DEF Steps
<1> HIDE DEF L, hi
<1>3. PICK f : RecursFrom(f, Labels, i, hi, "init", step)
  <2> HIDE DEF step
  <2> QED BY <1>1, <1>2, IntervalRecursion
<1>4. /\ f \in [i..hi -> Labels]
      /\ f = [k \in i..hi |-> IF k = i THEN "init" ELSE step[k][f[k - 1]]]
  BY <1>3 DEF RecursFrom
<1>5. f = [k \in i..hi |-> IF k = i THEN "init" ELSE goto(f[k - 1], get(text, k - 1))]
  <2> HIDE DEF step
  <2>1. ASSUME NEW k \in i..hi, k # i PROVE f[k] = goto(f[k - 1], get(text, k - 1))
    <3>1. k \in Nat /\ k - 1 \in i..hi
      BY <1>1, <2>1
    <3>2. f[k] = step[k][f[k - 1]]
      BY <1>4, <2>1
    <3>3. f[k - 1] \in Labels
      BY <1>4, <3>1
    <3> QED BY <3>1, <3>2, <3>3 DEF step
  <2>2. i \in i..hi /\ f[i] = "init" /\ f = [k \in i..hi |-> f[k]]
    BY <1>1, <1>4
  <2> QED BY <2>1, <2>2
<1>6. label = [k \in i..hi |-> IF k = i THEN "init" ELSE goto(label[k - 1], get(text, k - 1))]
  BY <1>5
<1> HIDE DEF label
<1>7. /\ label[i] = "init"
      /\ \A k \in (i + 1)..hi : label[k] = goto(label[k - 1], get(text, k - 1))
  <2>1. i \in i..hi /\ \A k \in (i + 1)..hi : k \in i..hi /\ k # i
    BY <1>1
  <2> QED BY <1>6, <2>1
<1>8. label \in [i..hi -> Labels]
  <2>1. label = [k \in i..hi |-> label[k]]
    BY <1>6
  <2>2. ASSUME NEW k \in (i + 1)..hi, label[k - 1] \in Labels PROVE label[k] \in Labels
    BY <1>7, <2>2, GotoType DEF Labels
  <2>3. i <= hi => label[i] \in Labels
    BY <1>7 DEF Labels
  <2> QED BY <1>1, <2>1, <2>2, <2>3, IntervalValues
<1> DEFINE Stops(k) == label[k] \in {"done", "error"}
<1>9. Stops(hi)
  <2>1. hi \in (i + 1)..hi /\ hi - 1 = L + 1 /\ L + 1 \in (i + 1)..hi /\ (L + 1) - 1 \in i..hi
    BY <1>1
  <2>2. label[L + 1] \in Inner
    <3>1. label[L + 1] = goto(label[(L + 1) - 1], get(text, (L + 1) - 1))
      BY <1>7, <2>1
    <3>2. label[(L + 1) - 1] \in Labels
      BY <1>8, <2>1
    <3> QED BY <3>1, <3>2, GotoType
  <2>3. get(text, L + 1) = EOF
    BY <1>1 DEF get, L
  <2>4. label[hi] = goto(label[L + 1], EOF)
    BY <1>7, <2>1, <2>3
  <2> QED BY <2>2, <2>4, GotoAtEOF
<1>10. ~Stops(i) /\ ~Stops(i + 1)
  <2>1. i + 1 \in (i + 1)..hi /\ (i + 1) - 1 = i
    BY <1>1
  <2>2. label[i + 1] = goto("init", get(text, i))
    BY <1>7, <2>1
  <2> QED BY <1>7, <2>2, GotoFromInit
<1> DEFINE stop == CHOOSE k \in i..hi : Stops(k) /\ \A j \in i..(k - 1) : ~Stops(j)
<1>11. stop \in i..hi /\ Stops(stop) /\ \A j \in i..(stop - 1) : ~Stops(j)
  <2> DEFINE P == {k \in i..hi : Stops(k)}
  <2>1. PICK m \in i..hi : m \in P
    <3>1. hi \in i..hi
      BY <1>1
    <3> QED BY <1>9, <3>1
  <2>2. PICK k \in i..hi : k \in P /\ \A j \in i..(k - 1) : j \notin P
    <3>1. \E k : IsFirst(k, i, hi, P)
      <4> HIDE DEF P
      <4> QED BY <1>1, <2>1, First
    <3> HIDE DEF P
    <3> QED BY <3>1 DEF IsFirst
  <2>3. Stops(k) /\ \A j \in i..(k - 1) : ~Stops(j)
    <3>1. ASSUME NEW j \in i..(k - 1) PROVE ~Stops(j)
      <4>1. j \in i..hi
        BY <1>1, <2>2
      <4> QED BY <2>2, <4>1
    <3> QED BY <2>2, <3>1
  <2> HIDE DEF Stops
  <2> QED BY <2>2, <2>3
<1> HIDE DEF stop
<1>12. RunNumber(text, i) = [end |-> label[stop], at |-> stop - 1]
  BY DEF RunNumber, stop, label, hi, L
<1> QED BY <1>7, <1>8, <1>10, <1>11, <1>12 DEF RunsOver, hi, L

\* The labels at which the automaton goes on.
Going == Labels \ {"done", "error"}

\* The characters s lead from one label to another.
Path(a, s, b) ==
  \E lab \in [0..Len(s) -> Going] :
     lab[0] = a /\ lab[Len(s)] = b /\ \A j \in 1..Len(s) : lab[j] = goto(lab[j - 1], s[j])

\* One character is a path.
LEMMA PathOne ==
  ASSUME NEW a \in Going, NEW c \in Character, NEW b \in Going, goto(a, c) = b
  PROVE  Path(a, <<c>>, b)
<1>1. PICK s \in Texts : s = <<c>> /\ Len(s) = 1 /\ s[1] = c
  BY Single DEF Texts
<1> DEFINE lab == [j \in 0..1 |-> IF j = 0 THEN a ELSE b]
<1>2. lab \in [0..1 -> Going] /\ lab[0] = a /\ lab[1] = b
  OBVIOUS
<1> HIDE DEF lab
<1>3. ASSUME NEW j \in 1..1 PROVE lab[j] = goto(lab[j - 1], s[j])
  <2>1. j = 1 /\ j - 1 = 0
    OBVIOUS
  <2> QED BY <1>1, <1>2, <2>1
<1>4. Path(a, s, b)
  BY <1>1, <1>2, <1>3 DEF Path
<1> QED BY <1>1, <1>4

\* Two paths join.
LEMMA PathJoined ==
  ASSUME NEW s \in Texts, NEW t \in Texts, NEW a, NEW b, NEW c, Path(a, s, b), Path(b, t, c)
  PROVE  Path(a, s \o t, c)
<1>1. PICK m \in Nat, n \in Nat : m = Len(s) /\ n = Len(t)
  BY LenProperties DEF Texts
<1>2. PICK u : /\ u = s \o t /\ Len(u) = m + n
               /\ \A i \in 1..(m + n) : u[i] = IF i <= m THEN s[i] ELSE t[i - m]
  <2>1. PICK u : u = s \o t
    OBVIOUS
  <2>2. /\ Len(u) = Len(s) + Len(t)
        /\ \A i \in 1..(Len(s) + Len(t)) : u[i] = IF i <= Len(s) THEN s[i] ELSE t[i - Len(s)]
    BY <2>1, ConcatProperties DEF Texts
  <2> QED BY <1>1, <2>1, <2>2
<1>3. PICK f \in [0..m -> Going] : f[0] = a /\ f[m] = b /\ \A j \in 1..m : f[j] = goto(f[j - 1], s[j])
  BY <1>1 DEF Path
<1>4. PICK g \in [0..n -> Going] : g[0] = b /\ g[n] = c /\ \A j \in 1..n : g[j] = goto(g[j - 1], t[j])
  BY <1>1 DEF Path
<1> DEFINE h == [j \in 0..(m + n) |-> IF j <= m THEN f[j] ELSE g[j - m]]
<1>5. h \in [0..(m + n) -> Going] /\ h[0] = a
  <2>1. ASSUME NEW j \in 0..(m + n) PROVE h[j] \in Going
    <3>1. j <= m => j \in 0..m
      OBVIOUS
    <3>2. ~(j <= m) => j - m \in 0..n
      OBVIOUS
    <3> QED BY <1>3, <1>4, <3>1, <3>2
  <2>2. 0 \in 0..(m + n) /\ 0 <= m
    OBVIOUS
  <2> QED BY <1>3, <2>1, <2>2
<1>6. \A j \in 0..n : h[m + j] = g[j]
  <2> SUFFICES ASSUME NEW j \in 0..n PROVE h[m + j] = g[j]
    OBVIOUS
  <2>1. m + j \in 0..(m + n) /\ (m + j) - m = j
    OBVIOUS
  <2>2. CASE j = 0
    <3>1. m + j = m /\ m <= m
      BY <2>2
    <3> QED BY <1>3, <1>4, <2>1, <2>2, <3>1
  <2>3. CASE j # 0
    <3>1. ~(m + j <= m)
      BY <2>3
    <3> QED BY <2>1, <3>1
  <2> QED BY <2>2, <2>3
<1>7. \A j \in 0..m : h[j] = f[j]
  OBVIOUS
<1> HIDE DEF h
<1>8. ASSUME NEW j \in 1..(m + n) PROVE h[j] = goto(h[j - 1], u[j])
  <2>1. CASE j <= m
    <3>1. j \in 1..m /\ j \in 0..m /\ j - 1 \in 0..m
      BY <2>1
    <3> QED BY <1>2, <1>3, <1>7, <2>1, <3>1
  <2>2. CASE ~(j <= m)
    <3>1. PICK k \in 1..n : k = j - m /\ j = m + k /\ j - 1 = m + (k - 1) /\ k \in 0..n /\ k - 1 \in 0..n
      <4>1. j - m \in 1..n
        BY <2>2
      <4> QED BY <4>1
    <3>2. h[j] = g[k] /\ h[j - 1] = g[k - 1]
      BY <1>6, <3>1
    <3>3. u[j] = t[k]
      BY <1>2, <2>2, <3>1
    <3> QED BY <1>4, <3>2, <3>3
  <2> QED BY <2>1, <2>2
<1>9. h[m + n] = c
  <2>1. n \in 0..n
    OBVIOUS
  <2> QED BY <1>4, <1>6, <2>1
<1>10. Path(a, u, c)
  BY <1>2, <1>5, <1>8, <1>9 DEF Path
<1> QED BY <1>2, <1>10

\* In three labels the automaton reads digits.
LEMMA PathDigits ==
  ASSUME NEW s \in Texts, \A i \in 1..Len(s) : s[i] \in Digits,
         NEW a \in {"any1", "decimal2", "any2"}
  PROVE  Path(a, s, a)
<1>1. PICK n \in Nat : n = Len(s)
  BY LenProperties DEF Texts
<1> DEFINE lab == [j \in 0..n |-> a]
<1>2. a \in Going
  BY DEF Going, Labels, Inner
<1>3. lab \in [0..n -> Going] /\ lab[0] = a /\ lab[n] = a
  BY <1>2
<1>4. ASSUME NEW j \in 1..n PROVE lab[j] = goto(lab[j - 1], s[j])
  <2>1. s[j] \in Digits /\ j \in 0..n /\ j - 1 \in 0..n
    BY <1>1
  <2>2. goto(a, s[j]) = a
    <3>1. PICK c \in Digits : c = s[j] /\ c # "." /\ c # "e"
      BY <2>1, DigitsFact
    <3>2. goto("any1", c) = "any1" /\ goto("decimal2", c) = "decimal2" /\ goto("any2", c) = "any2"
      BY <3>1 DEF goto
    <3> QED BY <3>1, <3>2
  <2> QED BY <2>1, <2>2
<1> HIDE DEF lab
<1> QED BY <1>1, <1>3, <1>4 DEF Path

\* What text has behind its first q characters is t.
Left(text, q, t) == q + Len(t) = Len(text) /\ \A j \in 1..Len(t) : text[q + j] = t[j]

\* Behind the first part of what is left, the second part is left.
LEMMA LeftJoined ==
  ASSUME NEW text \in Texts, NEW q \in Nat, NEW s \in Texts, NEW t \in Texts, Left(text, q, s \o t)
  PROVE  /\ Left(text, q + Len(s), t) /\ q + Len(s) \in Nat
         /\ q + Len(s) <= Len(text) /\ \A j \in 1..Len(s) : text[q + j] = s[j]
<1>1. PICK m \in Nat, n \in Nat : m = Len(s) /\ n = Len(t)
  BY LenProperties DEF Texts
<1>2. PICK u : /\ u = s \o t /\ Len(u) = m + n
               /\ \A i \in 1..(m + n) : u[i] = IF i <= m THEN s[i] ELSE t[i - m]
  <2>1. PICK u : u = s \o t
    OBVIOUS
  <2>2. /\ Len(u) = Len(s) + Len(t)
        /\ \A i \in 1..(Len(s) + Len(t)) : u[i] = IF i <= Len(s) THEN s[i] ELSE t[i - Len(s)]
    BY <2>1, ConcatProperties DEF Texts
  <2> QED BY <1>1, <2>1, <2>2
<1>3. q + (m + n) = Len(text) /\ \A j \in 1..(m + n) : text[q + j] = u[j]
  BY <1>2 DEF Left
<1>4. \A j \in 1..m : text[q + j] = s[j]
  <2> SUFFICES ASSUME NEW j \in 1..m PROVE text[q + j] = s[j]
    OBVIOUS
  <2>1. j \in 1..(m + n) /\ j <= m
    OBVIOUS
  <2> QED BY <1>2, <1>3, <2>1
<1>5. \A j \in 1..n : text[(q + m) + j] = t[j]
  <2> SUFFICES ASSUME NEW j \in 1..n PROVE text[(q + m) + j] = t[j]
    OBVIOUS
  <2>1. m + j \in 1..(m + n) /\ ~(m + j <= m) /\ (m + j) - m = j /\ (q + m) + j = q + (m + j)
    OBVIOUS
  <2> QED BY <1>2, <1>3, <2>1
<1>6. (q + m) + n = Len(text)
  BY <1>3
<1> QED BY <1>1, <1>3, <1>4, <1>5, <1>6 DEF Left

\* The first character of what is left.
LEMMA LeftGet ==
  ASSUME NEW text \in Texts, NEW q \in Nat, NEW t \in Texts, Left(text, q, t)
  PROVE  get(text, q + 1) = get(t, 1)
<1>1. PICK n \in Nat : n = Len(t) /\ q + n = Len(text)
  BY LenProperties DEF Texts, Left
<1>2. CASE n = 0
  BY <1>1, <1>2 DEF get
<1>3. CASE n # 0
  <2>1. 1 \in 1..n /\ q + 1 <= q + n /\ 1 <= n
    BY <1>3
  <2> QED BY <1>1, <2>1 DEF get, Left
<1> QED BY <1>2, <1>3

\* The text that is spelt is the subsequence.
LEMMA SubSeqSpelt ==
  ASSUME NEW text \in Texts, NEW q \in Nat, NEW s \in Texts, q + Len(s) <= Len(text),
         \A j \in 1..Len(s) : text[q + j] = s[j]
  PROVE  SubSeq(text, q + 1, q + Len(s)) = s
<1>1. Spells(text, q, s)
  BY DEF Spells
<1> QED BY <1>1, SpellsSub

\* A number ends before a character that its last label does not go on with.
LEMMA NumberEnds ==
  ASSUME NEW text \in Texts, NEW q \in Nat, NEW s \in Texts, s # <<>>, NEW t \in Texts,
         Left(text, q, s \o t), NEW b, Path("init", s, b), goto(b, get(t, 1)) = "done"
  PROVE  /\ RunNumber(text, q + 1) = [end |-> "done", at |-> q + 1 + Len(s)]
         /\ SubSeq(text, q + 1, q + Len(s)) = s
<1>1. PICK m \in Nat : m = Len(s) /\ m # 0
  BY LenProperties, EmptySeq DEF Texts
<1>2. /\ Left(text, q + m, t) /\ q + m \in Nat /\ q + m <= Len(text)
      /\ \A j \in 1..m : text[q + j] = s[j]
  BY <1>1, LeftJoined
<1>3. SubSeq(text, q + 1, q + m) = s
  BY <1>1, <1>2, SubSeqSpelt
<1>4. PICK N \in Nat : N = Len(text)
  BY LenProperties DEF Texts
<1>5. PICK i \in 1..N : i = q + 1
  BY <1>1, <1>2, <1>4
<1>6. PICK label, stop : RunsOver(label, stop, text, i)
  BY <1>4, <1>5, RunNumberFacts DEF Texts
<1>7. PICK lab \in [0..m -> Going] :
         lab[0] = "init" /\ lab[m] = b /\ \A j \in 1..m : lab[j] = goto(lab[j - 1], s[j])
  BY <1>1 DEF Path
<1>8. \A j \in 1..m : get(text, q + j) = s[j]
  <2> SUFFICES ASSUME NEW j \in 1..m PROVE get(text, q + j) = s[j]
    OBVIOUS
  <2>1. q + j <= N
    BY <1>2, <1>4
  <2> QED BY <1>2, <1>4, <2>1 DEF get
<1>9. /\ label[i] = "init" /\ stop \in i..(N + 2) /\ label[stop] \in {"done", "error"}
      /\ \A k \in (i + 1)..(N + 2) : label[k] = goto(label[k - 1], get(text, k - 1))
      /\ \A j \in i..(stop - 1) : label[j] \notin {"done", "error"}
      /\ RunNumber(text, i) = [end |-> label[stop], at |-> stop - 1]
  BY <1>4, <1>6 DEF RunsOver
<1> DEFINE P == {j \in Nat : j <= m => label[i + j] = lab[j]}
<1>10. \A j \in Nat : j \in P
  <2>1. 0 \in P
    BY <1>7, <1>9
  <2>2. ASSUME NEW j \in Nat, j \in P PROVE j + 1 \in P
    <3> SUFFICES ASSUME j + 1 <= m PROVE label[i + (j + 1)] = lab[j + 1]
      OBVIOUS
    <3>1. label[i + j] = lab[j]
      BY <2>2
    <3>2. PICK k \in (i + 1)..(N + 2) : k = i + (j + 1) /\ k - 1 = i + j /\ k - 1 = q + (j + 1)
      BY <1>2, <1>4, <1>5
    <3>3. PICK l \in 1..m : l = j + 1 /\ l - 1 = j
      OBVIOUS
    <3>4. label[k] = goto(lab[j], s[l])
      BY <1>8, <1>9, <3>1, <3>2, <3>3
    <3> QED BY <1>7, <3>2, <3>3, <3>4
  <2> HIDE DEF P
  <2> QED BY <2>1, <2>2, Induction
<1>11. \A j \in 0..m : label[i + j] = lab[j]
  BY <1>10
<1>12. get(text, i + m) = get(t, 1)
  <2>1. i + m = (q + m) + 1
    BY <1>5
  <2> QED BY <1>2, <2>1, LeftGet
<1>13. label[i + m + 1] = "done"
  <2>1. PICK k \in (i + 1)..(N + 2) : k = i + m + 1 /\ k - 1 = i + m
    BY <1>2, <1>4, <1>5
  <2>2. label[i + m] = b
    BY <1>7, <1>11
  <2>3. label[k] = goto(label[k - 1], get(text, k - 1))
    BY <1>9
  <2> QED BY <1>12, <2>1, <2>2, <2>3
<1>14. stop = i + m + 1
  <2>1. ASSUME stop < i + m + 1 PROVE FALSE
    <3>1. PICK j \in 0..m : stop = i + j
      <4>1. stop - i \in 0..m /\ stop = i + (stop - i)
        BY <1>9, <2>1
      <4> QED BY <4>1
    <3>2. lab[j] \notin {"done", "error"}
      BY <1>7 DEF Going
    <3> QED BY <1>9, <1>11, <3>1, <3>2
  <2>2. ASSUME stop > i + m + 1 PROVE FALSE
    <3>1. i + m + 1 \in i..(stop - 1)
      BY <1>9, <2>2
    <3> QED BY <1>9, <1>13, <3>1
  <2> QED BY <1>9, <2>1, <2>2
<1>15. RunNumber(text, i) = [end |-> "done", at |-> i + m]
  <2>1. stop - 1 = i + m
    BY <1>14
  <2> QED BY <1>9, <1>13, <1>14, <2>1
<1> QED BY <1>1, <1>3, <1>5, <1>15

-----------------------------------------------------------------------------
(* Integers come back.                                                        *)

\* The quotients DigitsOf takes its digits from.
Divides(rest, last, n) ==
  /\ rest \in [0..n -> Nat] /\ rest[0] = n /\ \A k \in 1..n : rest[k] = rest[k - 1] \div 10
  /\ last \in 0..n /\ rest[last] < 10 /\ \A j \in 0..(last - 1) : rest[j] >= 10
  /\ DigitsOf(n) = [i \in 1..(last + 1) |-> DigitChars[(rest[last + 1 - i] % 10) + 1]]

\* The digits of an integer are those of its tenth and its last one.
LEMMA DigitsOfFacts ==
  ASSUME NEW n \in Nat
  PROVE  \E rest, last : Divides(rest, last, n)
<1> DEFINE rest[k \in 0..n] == IF k = 0 THEN n ELSE rest[k - 1] \div 10
           step == [k \in Nat |-> [x \in Nat |-> x \div 10]]
<1>1. step \in Steps(Nat) /\ 0 \in Nat
  BY DEF Steps
<1>2. PICK f : RecursFrom(f, Nat, 0, n, n, step)
  <2> HIDE DEF step
  <2> QED BY <1>1, IntervalRecursion
<1>3. f \in [0..n -> Nat] /\ f = [k \in 0..n |-> IF k = 0 THEN n ELSE step[k][f[k - 1]]]
  BY <1>2 DEF RecursFrom
<1>4. f = [k \in 0..n |-> IF k = 0 THEN n ELSE f[k - 1] \div 10]
  <2> HIDE DEF step
  <2>1. ASSUME NEW k \in 0..n, k # 0 PROVE f[k] = f[k - 1] \div 10
    <3>1. k \in Nat /\ k - 1 \in 0..n
      BY <2>1
    <3>2. f[k] = step[k][f[k - 1]]
      BY <1>3, <2>1
    <3>3. f[k - 1] \in Nat
      BY <1>3, <3>1
    <3> QED BY <3>1, <3>2, <3>3 DEF step
  <2>2. f[0] = n /\ f = [k \in 0..n |-> f[k]]
    BY <1>3
  <2> QED BY <2>1, <2>2
<1>5. rest = [k \in 0..n |-> IF k = 0 THEN n ELSE rest[k - 1] \div 10]
  BY <1>4
<1> HIDE DEF rest
<1>6. rest[0] = n /\ \A k \in 1..n : rest[k] = rest[k - 1] \div 10
  <2>1. 0 \in 0..n /\ \A k \in 1..n : k \in 0..n /\ k # 0
    OBVIOUS
  <2> QED BY <1>5, <2>1
<1>7. rest \in [0..n -> Nat]
  <2>1. rest = [k \in 0..n |-> rest[k]]
    BY <1>5
  <2>2. ASSUME NEW k \in (0 + 1)..n, rest[k - 1] \in Nat PROVE rest[k] \in Nat
    BY <1>6, <2>2
  <2>3. 0 <= n => rest[0] \in Nat
    BY <1>6
  <2>4. 0 \in Nat
    OBVIOUS
  <2> QED BY <2>1, <2>2, <2>3, <2>4, IntervalValues
<1>8. \E k \in 0..n : rest[k] < 10
  <2> DEFINE P == {k \in Nat : k <= n => rest[k] < 10 \/ rest[k] + k <= n}
  <2>1. 0 \in P
    BY <1>6
  <2>2. ASSUME NEW k \in Nat, k \in P PROVE k + 1 \in P
    <3> SUFFICES ASSUME k + 1 <= n PROVE rest[k + 1] < 10 \/ rest[k + 1] + (k + 1) <= n
      OBVIOUS
    <3>1. k + 1 \in 1..n /\ (k + 1) - 1 = k /\ k \in 0..n
      OBVIOUS
    <3>2. rest[k + 1] = rest[k] \div 10 /\ rest[k] \in Nat
      BY <1>6, <1>7, <3>1
    <3>3. rest[k] < 10 \/ rest[k] + k <= n
      BY <2>2
    <3>4. PICK x \in Nat : x = rest[k]
      BY <3>2
    <3>5. x \div 10 < 10 \/ (x \div 10) + (k + 1) <= n
      <4>1. x < 10 => x \div 10 < 10
        OBVIOUS
      <4>2. x >= 10 => x \div 10 + 1 <= x
        OBVIOUS
      <4>3. x \div 10 \in Nat
        OBVIOUS
      <4> QED BY <3>3, <3>4, <4>1, <4>2, <4>3
    <3> QED BY <3>2, <3>4, <3>5
  <2>3. \A k \in Nat : k \in P
    <3> HIDE DEF P
    <3> QED BY <2>1, <2>2, Induction
  <2>4. n \in P /\ n \in 0..n
    BY <2>3
  <2>5. rest[n] \in Nat
    BY <1>7
  <2> QED BY <2>4, <2>5
<1> DEFINE last == CHOOSE k \in 0..n : rest[k] < 10 /\ \A j \in 0..(k - 1) : rest[j] >= 10
<1>9. last \in 0..n /\ rest[last] < 10 /\ \A j \in 0..(last - 1) : rest[j] >= 10
  <2> DEFINE P == {k \in 0..n : rest[k] < 10}
  <2>1. PICK m \in 0..n : m \in P
    BY <1>8
  <2>2. PICK k \in 0..n : k \in P /\ \A j \in 0..(k - 1) : j \notin P
    <3>1. 0 \in Nat /\ n \in Nat
      OBVIOUS
    <3>2. \E k : IsFirst(k, 0, n, P)
      <4> HIDE DEF P
      <4> QED BY <2>1, <3>1, First
    <3> HIDE DEF P
    <3> QED BY <3>2 DEF IsFirst
  <2>3. rest[k] < 10 /\ \A j \in 0..(k - 1) : rest[j] >= 10
    <3>1. ASSUME NEW j \in 0..(k - 1) PROVE rest[j] >= 10
      <4>1. j \in 0..n
        OBVIOUS
      <4> QED BY <1>7, <2>2, <4>1
    <3> QED BY <2>2, <3>1
  <2> QED BY <2>3
<1>10. DigitsOf(n) = [i \in 1..(last + 1) |-> DigitChars[(rest[last + 1 - i] % 10) + 1]]
  BY DEF DigitsOf, last, rest
<1> HIDE DEF last
<1> QED BY <1>6, <1>7, <1>9, <1>10 DEF Divides

\* Division with remainder.
LEMMA DivMod ==
  ASSUME NEW x \in Nat
  PROVE  10 * (x \div 10) + (x % 10) = x
  BY Z3

\* The character of a digit.
LEMMA DigitOf ==
  ASSUME NEW j \in 0..9
  PROVE  DigitChars[j + 1] \in Digits /\ ValueOf(DigitChars[j + 1]) = j
         /\ (DigitChars[j + 1] = "0" <=> j = 0)
<1> DEFINE c == DigitChars[j + 1]
           I == {i \in 1..Len(DigitChars) : DigitChars[i] = c}
<1>1. Len(DigitChars) = 10 /\ DOMAIN DigitChars = 1..10
  BY DEF DigitChars
<1>2. ValueOf(c) = (IF I # {} THEN Min(I) ELSE 0) - 1
  BY DEF ValueOf, SelectInSeq
<1>3. /\ DigitChars[1] = "0" /\ DigitChars[2] = "1" /\ DigitChars[3] = "2" /\ DigitChars[4] = "3"
      /\ DigitChars[5] = "4" /\ DigitChars[6] = "5" /\ DigitChars[7] = "6" /\ DigitChars[8] = "7"
      /\ DigitChars[9] = "8" /\ DigitChars[10] = "9"
  BY DEF DigitChars
<1>4. ASSUME NEW x \in 1..10, NEW y \in 1..10, DigitChars[x] = DigitChars[y] PROVE x = y
  <2>1. x \in {1, 2, 3, 4, 5, 6, 7, 8, 9, 10} /\ y \in {1, 2, 3, 4, 5, 6, 7, 8, 9, 10}
    OBVIOUS
  <2> HIDE DEF DigitChars
  <2> QED BY <1>3, <1>4, <2>1
<1>5. PICK m \in 1..10 : m = j + 1
  OBVIOUS
<1>6. I = {m}
  BY <1>1, <1>4, <1>5
<1>7. Min({m}) = m
  BY DEF Min
<1>8. ValueOf(c) = j
  <2> HIDE DEF I, c
  <2> QED BY <1>2, <1>5, <1>6, <1>7
<1>9. c \in Digits
  BY <1>1, <1>5 DEF Digits, Range
<1>10. c = "0" <=> j = 0
  BY <1>3, <1>4, <1>5
<1> QED BY <1>8, <1>9, <1>10

\* The digits of a number are digits, without a zero in front, and stand for it.
LEMMA DigitsOfBack ==
  ASSUME NEW n \in Nat
  PROVE  /\ DigitsOf(n) \in Texts /\ Len(DigitsOf(n)) >= 1 /\ Len(DigitsOf(n)) \in Nat
         /\ \A i \in 1..Len(DigitsOf(n)) : DigitsOf(n)[i] \in Digits
         /\ Decimal(DigitsOf(n)) = n
         /\ DigitsOf(n)[1] = "0" => n = 0 /\ Len(DigitsOf(n)) = 1
<1>1. PICK rest, last : Divides(rest, last, n)
  BY DigitsOfFacts
<1>2. /\ rest \in [0..n -> Nat] /\ rest[0] = n /\ \A k \in 1..n : rest[k] = rest[k - 1] \div 10
      /\ last \in 0..n /\ rest[last] < 10 /\ \A j \in 0..(last - 1) : rest[j] >= 10
  BY <1>1 DEF Divides
<1>3. PICK d \in Texts : d = DigitsOf(n)
  BY DigitsOfType
<1>4. d = [i \in 1..(last + 1) |-> DigitChars[(rest[last + 1 - i] % 10) + 1]]
  BY <1>1, <1>3 DEF Divides
<1>5. last + 1 \in Nat /\ last + 1 >= 1
  BY <1>2
<1>6. Len(d) = last + 1
  BY <1>4, <1>5
<1>7. ASSUME NEW i \in 1..(last + 1), NEW j \in 0..n, j = last + 1 - i
      PROVE  /\ d[i] \in Digits /\ ValueOf(d[i]) = rest[j] % 10 /\ rest[j] \in Nat
             /\ (d[i] = "0" <=> rest[j] % 10 = 0)
  <2>1. PICK x \in Nat : x = rest[j]
    BY <1>2
  <2>2. PICK y \in 0..9 : y = x % 10
    OBVIOUS
  <2>3. d[i] = DigitChars[y + 1]
    BY <1>4, <1>7, <2>1, <2>2
  <2> QED BY <2>1, <2>2, <2>3, DigitOf
<1>8. ASSUME NEW i \in 1..(last + 1) PROVE d[i] \in Digits
  <2>1. last + 1 - i \in 0..n
    BY <1>2
  <2> QED BY <1>7, <2>1
<1>9. /\ d[1] = "0" <=> rest[last] % 10 = 0
      /\ ValueOf(d[1]) = rest[last] % 10 /\ rest[last] \in Nat /\ rest[last] % 10 = rest[last]
  <2>1. 1 \in 1..(last + 1) /\ last = last + 1 - 1
    BY <1>2
  <2>2. (d[1] = "0" <=> rest[last] % 10 = 0) /\ ValueOf(d[1]) = rest[last] % 10 /\ rest[last] \in Nat
    BY <1>2, <1>7, <2>1
  <2>3. \A x \in Nat : x < 10 => x % 10 = x
    OBVIOUS
  <2> QED BY <1>2, <2>2, <2>3
<1>10. ASSUME d[1] = "0" PROVE n = 0 /\ last = 0
  <2>1. rest[last] = 0
    BY <1>9, <1>10
  <2>2. last = 0
    <3>1. SUFFICES ASSUME last # 0 PROVE FALSE
      OBVIOUS
    <3>2. last \in 1..n /\ last - 1 \in 0..(last - 1) /\ last - 1 \in 0..n
      BY <1>2, <3>1
    <3>3. PICK x \in Nat : x = rest[last - 1] /\ x >= 10 /\ x \div 10 = 0
      BY <1>2, <2>1, <3>2
    <3> QED BY <3>3
  <2> QED BY <1>2, <2>1, <2>2
<1>11. PICK f \in [0..(last + 1) -> Int] :
            /\ Decimal(d) = f[last + 1] /\ f[0] = 0
            /\ \A k \in 1..(last + 1) : f[k] = 10 * f[k - 1] + ValueOf(d[k])
  <2>1. \E f \in [0..Len(d) -> Int] :
            /\ Decimal(d) = f[Len(d)] /\ f[0] = 0
            /\ \A k \in 1..Len(d) : f[k] = 10 * f[k - 1] + ValueOf(d[k])
    BY DecimalFacts DEF Texts
  <2> QED BY <1>6, <2>1
<1> DEFINE P == {k \in Nat : k <= last => f[k + 1] = rest[last - k]}
<1>12. \A k \in Nat : k \in P
  <2>1. 0 \in P
    <3>1. 1 \in 1..(last + 1) /\ 1 - 1 = 0 /\ 0 + 1 = 1 /\ last - 0 = last
      BY <1>2
    <3>2. f[1] = 10 * f[0] + ValueOf(d[1])
      BY <1>11, <3>1
    <3>3. f[1] = rest[last]
      BY <1>9, <1>11, <3>2
    <3> QED BY <3>1, <3>3
  <2>2. ASSUME NEW k \in Nat, k \in P PROVE k + 1 \in P
    <3> SUFFICES ASSUME k + 1 <= last PROVE f[(k + 1) + 1] = rest[last - (k + 1)]
      OBVIOUS
    <3>1. f[k + 1] = rest[last - k]
      BY <1>2, <2>2
    <3>2. PICK j \in 0..n : j = last - (k + 1) /\ j + 1 = last - k /\ j + 1 \in 1..n /\ (j + 1) - 1 = j
      <4>1. last - (k + 1) \in 0..n /\ last - k \in 1..n
        BY <1>2
      <4> QED BY <1>2, <4>1
    <3>3. PICK i \in 1..(last + 1) : i = (k + 1) + 1 /\ i - 1 = k + 1 /\ j = last + 1 - i
      BY <1>2, <3>2
    <3>4. PICK x \in Nat : x = rest[j]
      BY <1>2
    <3>5. rest[last - k] = x \div 10
      BY <1>2, <3>2, <3>4
    <3>6. ValueOf(d[i]) = x % 10
      BY <1>7, <3>3, <3>4
    <3>7. f[i] = 10 * f[i - 1] + ValueOf(d[i])
      BY <1>11
    <3>8. f[i] = 10 * (x \div 10) + (x % 10)
      <4>1. f[i - 1] = x \div 10
        BY <3>1, <3>3, <3>5
      <4> HIDE DEF P
      <4> QED BY <3>6, <3>7, <4>1, Zenon
    <3>9. 10 * (x \div 10) + (x % 10) = x
      BY DivMod
    <3> QED BY <3>2, <3>3, <3>4, <3>8, <3>9
  <2> HIDE DEF P
  <2> QED BY <2>1, <2>2, Induction
<1>13. Decimal(d) = n
  <2>1. last \in P /\ last - last = 0 /\ last \in Nat
    BY <1>2, <1>12
  <2> QED BY <1>2, <1>11, <2>1
<1> QED BY <1>3, <1>5, <1>6, <1>8, <1>10, <1>13

\* The characters behind a value.
Follow == {",", "]", "}", EOF}

\* The automaton reads the digits of a number from its start or behind a minus.
LEMMA PathWhole ==
  ASSUME NEW d \in Texts, d # <<>>, \A i \in 1..Len(d) : d[i] \in Digits,
         d[1] = "0" => Len(d) = 1, NEW a \in {"init", "minus"}
  PROVE  \E b \in {"zero", "any1"} : Path(a, d, b)
<1>1. PICK m \in Nat :
         /\ m = Len(d) /\ m >= 1 /\ \A i \in 1..m : d[i] \in Digits
         /\ d[1] = "0" => m = 1
  <2>1. PICK m \in Nat : m = Len(d) /\ m # 0
    BY LenProperties, EmptySeq DEF Texts
  <2> QED BY <2>1
<1>2. a \in Going /\ "zero" \in Going /\ "any1" \in Going
  BY DEF Going, Labels, Inner
<1>3. d[1] \in Digits /\ d[1] \in Character
  <2>1. 1 \in 1..m
    BY <1>1
  <2> QED BY <1>1, <2>1, ElementOfSeq DEF Texts
<1>4. CASE d[1] = "0"
  <2>1. d = <<"0">>
    BY <1>1, <1>4 DEF Texts
  <2>2. goto(a, "0") = "zero"
    <3>1. goto("init", "0") = "zero" /\ goto("minus", "0") = "zero"
      BY DEF goto
    <3> QED BY <3>1
  <2>3. Path(a, <<"0">>, "zero")
    BY <1>2, <1>3, <1>4, <2>2, PathOne
  <2> QED BY <1>1, <2>1, <2>3
<1>5. CASE d[1] # "0"
  <2>1. PICK c \in Digits : c = d[1] /\ c # "0" /\ c # "-"
    BY <1>3, <1>5, DigitsFact
  <2>2. goto("init", c) = "any1" /\ goto("minus", c) = "any1"
    BY <2>1 DEF goto
  <2>3. Path(a, <<c>>, "any1")
    BY <1>2, <1>3, <2>1, <2>2, PathOne
  <2>4. PICK e \in Texts : e = Tail(d) /\ <<c>> \o e = d /\ \A i \in 1..Len(e) : e[i] \in Digits
    <3>1. d # <<>>
      BY <1>1, EmptySeq
    <3>2. Tail(d) \in Texts /\ Len(Tail(d)) = m - 1 /\ \A i \in 1..(m - 1) : Tail(d)[i] = d[i + 1]
      BY <1>1, <3>1, HeadTailProperties DEF Texts
    <3>3. \A i \in 1..(m - 1) : Tail(d)[i] \in Digits
      <4>1. \A i \in 1..(m - 1) : i + 1 \in 1..m
        BY <1>1
      <4> QED BY <1>1, <3>2, <4>1
    <3>4. <<c>> \o Tail(d) = d
      <4>1. PICK x \in Texts, y \in Texts : x = <<c>> /\ y = Tail(d)
        BY <1>3, <2>1, <3>2, OneCharacter
      <4>2. PICK z \in Texts : z = x \o y
        BY Joined
      <4>3. Len(x) = 1 /\ x[1] = c
        BY <4>1
      <4>4. /\ Len(z) = Len(x) + Len(y)
            /\ \A i \in 1..(Len(x) + Len(y)) : z[i] = IF i <= Len(x) THEN x[i] ELSE y[i - Len(x)]
        BY <4>2, ConcatProperties DEF Texts
      <4>5. Len(z) = m
        BY <1>1, <3>2, <4>1, <4>3, <4>4
      <4>6. ASSUME NEW i \in 1..m PROVE z[i] = d[i]
        <5>1. CASE i = 1
          BY <1>1, <2>1, <4>3, <4>4, <4>5, <5>1
        <5>2. CASE i # 1
          <6>1. i - 1 \in 1..(m - 1) /\ (i - 1) + 1 = i /\ ~(i <= 1)
            BY <5>2
          <6> QED BY <3>2, <4>1, <4>3, <4>4, <4>5, <6>1
        <5> QED BY <5>1, <5>2
      <4> QED BY <1>1, <4>1, <4>2, <4>5, <4>6, SeqEqual DEF Texts
    <3> QED BY <3>2, <3>3, <3>4
  <2>5. Path("any1", e, "any1")
    BY <2>4, PathDigits
  <2>6. <<c>> \in Texts
    BY <1>3, <2>1, OneCharacter
  <2>7. Path(a, <<c>> \o e, "any1")
    BY <2>3, <2>5, <2>6, PathJoined
  <2> QED BY <1>1, <2>4, <2>7
<1> QED BY <1>4, <1>5

\* The automaton reads the digits that dump_integer writes.
LEMMA PathDecimal ==
  ASSUME NEW n \in Nat, NEW a \in {"init", "minus"}
  PROVE  \E b \in {"zero", "any1"} : Path(a, DigitsOf(n), b)
<1>1. PICK d \in Texts, m \in Nat :
         /\ d = DigitsOf(n) /\ m = Len(d) /\ m >= 1 /\ \A i \in 1..m : d[i] \in Digits
         /\ d[1] = "0" => m = 1
  BY DigitsOfBack
<1>2. d # <<>>
  BY <1>1, EmptySeq
<1>3. \E b \in {"zero", "any1"} : Path(a, d, b)
  BY <1>1, <1>2, PathWhole
<1> QED BY <1>1, <1>3

\* No character of an integer is a point or an exponent.
LEMMA IntegerText ==
  ASSUME NEW n \in Int
  PROVE  \E s \in Texts : /\ s = dump_integer(n) /\ s # <<>> /\ Range(s) \cap {".", "e"} = {}
                          /\ s[1] \in Digits \cup {"-"}
                          /\ (IF s[1] = "-" THEN -Decimal(Tail(s)) ELSE Decimal(s)) = n
                          /\ \E b \in {"zero", "any1"} : Path("init", s, b)
<1>1. PICK k \in Nat : k = IF n < 0 THEN -n ELSE n
  OBVIOUS
<1>2. PICK d \in Texts, m \in Nat :
         /\ d = DigitsOf(k) /\ m = Len(d) /\ m >= 1 /\ \A i \in 1..m : d[i] \in Digits
         /\ Decimal(d) = k
  BY DigitsOfBack
<1>3. \A c \in Digits : c \notin {".", "e", "-"}
  BY DigitsFact
<1>4. CASE n < 0
  <2>1. PICK h \in Texts : h = <<"-">> /\ Len(h) = 1 /\ h[1] = "-" /\ "-" \in Character
    BY LiteralTexts DEF Literals, Character
  <2>2. PICK s \in Texts : s = h \o d
    BY Joined
  <2>3. Len(s) = 1 + m /\ \A i \in 1..(1 + m) : s[i] = IF i <= 1 THEN h[i] ELSE d[i - 1]
    <3>1. /\ Len(s) = Len(h) + Len(d)
          /\ \A i \in 1..(Len(h) + Len(d)) : s[i] = IF i <= Len(h) THEN h[i] ELSE d[i - Len(h)]
      BY <2>2, ConcatProperties DEF Texts
    <3> QED BY <1>2, <2>1, <3>1
  <2>4. s[1] = "-" /\ \A i \in 1..m : s[i + 1] = d[i]
    <3>1. s[1] = "-"
      BY <1>2, <2>1, <2>3
    <3>2. ASSUME NEW i \in 1..m PROVE s[i + 1] = d[i]
      <4>1. i + 1 \in 1..(1 + m) /\ ~(i + 1 <= 1) /\ (i + 1) - 1 = i
        OBVIOUS
      <4> QED BY <2>3, <4>1
    <3> QED BY <3>1, <3>2
  <2>5. s # <<>>
    BY <2>3, EmptySeq
  <2>6. Tail(s) = d
    <3>1. Tail(s) \in Texts /\ Len(Tail(s)) = m /\ \A i \in 1..m : Tail(s)[i] = s[i + 1]
      BY <1>2, <2>3, <2>5, HeadTailProperties DEF Texts
    <3> QED BY <1>2, <2>4, <3>1, SeqEqual DEF Texts
  <2>7. ASSUME NEW i \in 1..(1 + m) PROVE s[i] \notin {".", "e"}
    <3>1. CASE i = 1
      BY <2>4, <3>1
    <3>2. CASE i # 1
      <4>1. i - 1 \in 1..m /\ (i - 1) + 1 = i
        BY <3>2
      <4> QED BY <1>2, <1>3, <2>4, <4>1
    <3> QED BY <3>1, <3>2
  <2>8. Range(s) \cap {".", "e"} = {}
    <3>1. DOMAIN s = 1..(1 + m)
      BY <2>3, LenProperties DEF Texts
    <3> QED BY <2>7, <3>1 DEF Range
  <2>9. PICK b \in {"zero", "any1"} : Path("minus", d, b)
    BY <1>2, PathDecimal
  <2>10. Path("init", h, "minus")
    <3>1. goto("init", "-") = "minus"
      BY DEF goto
    <3>2. "init" \in Going /\ "minus" \in Going
      BY DEF Going, Labels, Inner
    <3> QED BY <2>1, <3>1, <3>2, PathOne
  <2>11. Path("init", s, b)
    BY <2>2, <2>9, <2>10, PathJoined
  <2>12. dump_integer(n) = s
    BY <1>1, <1>2, <1>4, <2>1, <2>2 DEF dump_integer
  <2>13. -Decimal(Tail(s)) = n
    <3>1. k = -n /\ -k = n
      BY <1>1, <1>4
    <3>2. Decimal(Tail(s)) = k
      BY <1>2, <2>6
    <3> QED BY <3>1, <3>2
  <2> QED BY <2>4, <2>5, <2>8, <2>11, <2>12, <2>13
<1>5. CASE ~(n < 0)
  <2>1. dump_integer(n) = d
    BY <1>1, <1>2, <1>5 DEF dump_integer
  <2>2. d # <<>>
    BY <1>2, EmptySeq
  <2>3. d[1] \in Digits /\ d[1] # "-"
    BY <1>2, <1>3
  <2>4. Range(d) \cap {".", "e"} = {}
    <3>1. DOMAIN d = 1..m
      BY <1>2, LenProperties DEF Texts
    <3> QED BY <1>2, <1>3, <3>1 DEF Range
  <2>5. PICK b \in {"zero", "any1"} : Path("init", d, b)
    BY <1>2, PathDecimal
  <2>6. Decimal(d) = n
    BY <1>1, <1>2, <1>5
  <2> QED BY <2>1, <2>2, <2>3, <2>4, <2>5, <2>6
<1> QED BY <1>4, <1>5

\* An integer of 64 bits is read as it was written.
LEMMA IntegerBack ==
  ASSUME NEW text \in Texts, NEW q \in Nat, NEW n \in Int, -LongHalf <= n, n < 2 * LongHalf,
         NEW t \in Texts, Left(text, q, dump_integer(n) \o t), get(t, 1) \in Follow
  PROVE  scan_number(text, q + 1) = Token("value", <<"int", n>>, q + Len(dump_integer(n)) + 1)
<1>1. PICK s \in Texts :
         /\ s = dump_integer(n) /\ s # <<>> /\ Range(s) \cap {".", "e"} = {}
         /\ (IF s[1] = "-" THEN -Decimal(Tail(s)) ELSE Decimal(s)) = n
         /\ \E b \in {"zero", "any1"} : Path("init", s, b)
  BY IntegerText
<1>2. PICK b \in {"zero", "any1"} : Path("init", s, b)
  BY <1>1
<1>3. PICK c \in Follow : c = get(t, 1)
  OBVIOUS
<1>4. goto("zero", c) = "done" /\ goto("any1", c) = "done"
  <2>1. c \notin Digits /\ c # "." /\ c # "e"
    BY <1>3, DigitsFact DEF Follow, EOF
  <2> QED BY <2>1 DEF goto
<1>5. goto(b, get(t, 1)) = "done"
  BY <1>2, <1>3, <1>4
<1>6. PICK m \in Nat : m = Len(s)
  BY LenProperties DEF Texts
<1>7. /\ RunNumber(text, q + 1) = [end |-> "done", at |-> q + 1 + m]
      /\ SubSeq(text, q + 1, q + m) = s
  <2>1. Left(text, q, s \o t)
    BY <1>1
  <2>2. s # <<>> /\ Path("init", s, b)
    BY <1>1, <1>2
  <2>3. /\ RunNumber(text, q + 1) = [end |-> "done", at |-> q + 1 + Len(s)]
        /\ SubSeq(text, q + 1, q + Len(s)) = s
    BY <1>5, <2>1, <2>2, NumberEnds
  <2> QED BY <1>6, <2>3
<1>8. PICK i \in Nat, at2 \in Nat : i = q + 1 /\ at2 = q + m + 1 /\ at2 - 1 = q + m /\ at2 = q + 1 + m
  <2>1. q + 1 \in Nat /\ q + m + 1 \in Nat /\ (q + m + 1) - 1 = q + m /\ q + m + 1 = q + 1 + m
    OBVIOUS
  <2> QED BY <2>1
<1>9. RunNumber(text, i) = [end |-> "done", at |-> at2] /\ SubSeq(text, i, at2 - 1) = s
  BY <1>7, <1>8
<1>10. scan_number(text, i) = Token("value", <<"int", n>>, at2)
  <2> DEFINE run == RunNumber(text, i)
             x == SubSeq(text, i, run.at - 1)
             k == IF x[1] = "-" THEN -Decimal(Tail(x)) ELSE Decimal(x)
  <2>1. run = [end |-> "done", at |-> at2] /\ x = s
    BY <1>9
  <2>2. k = n
    <3> HIDE DEF x
    <3> QED BY <1>1, <2>1
  <2>3. scan_number(text, i) =
        IF run.end = "error" THEN ParseError(run.at)
        ELSE IF Range(x) \cap {".", "e"} = {} /\ -LongHalf <= k /\ k < 2 * LongHalf
             THEN Token("value", <<"int", k>>, run.at)
             ELSE Token(IF strtof(x).point > MaxPoint THEN "overflow" ELSE "value",
                        <<"float", Flushed(strtof(x))>>, run.at)
    BY DEF scan_number, k, x, run
  <2>4. run.end # "error" /\ run.at = at2
    BY <2>1
  <2> HIDE DEF run, x, k
  <2>5. Range(x) \cap {".", "e"} = {} /\ -LongHalf <= k /\ k < 2 * LongHalf
    BY <1>1, <2>1, <2>2
  <2> QED BY <2>2, <2>3, <2>4, <2>5
<1> QED BY <1>1, <1>6, <1>8, <1>10

-----------------------------------------------------------------------------
(* What is left of a sequence of texts.                                       *)

\* The rest of a sequence begins with its next element.
LEMMA SubSeqFrom ==
  ASSUME NEW S, NEW q \in Seq(S), NEW k \in Nat, k < Len(q)
  PROVE  SubSeq(q, k + 1, Len(q)) = <<q[k + 1]>> \o SubSeq(q, k + 2, Len(q))
<1>1. PICK m \in 1..Len(q) : m = k + 1 /\ m + 1 = k + 2
  BY LenProperties
<1>2. Len(q) \in m..Len(q)
  BY <1>1, LenProperties
<1>3. SubSeq(q, m, Len(q)) = <<q[m]>> \o SubSeq(q, m + 1, Len(q))
  BY <1>2, SubSeqRecursiveFirst
<1> QED BY <1>1, <1>3

\* What FlattenSeq gives behind the first k sequences.
After(q, k) == FlattenSeq(SubSeq(q, k + 1, Len(q)))

\* What is left of joined parts, part by part.
LEMMA AfterFacts ==
  ASSUME NEW S, NEW q \in Seq(Seq(S)), NEW k \in 0..Len(q)
  PROVE  /\ After(q, k) \in Seq(S)
         /\ k = 0 => After(q, k) = FlattenSeq(q)
         /\ k = Len(q) => After(q, k) = <<>>
         /\ k # Len(q) => After(q, k) = q[k + 1] \o After(q, k + 1)
<1>1. PICK n \in Nat : n = Len(q)
  BY LenProperties
<1>2. ASSUME NEW j \in 0..n PROVE SubSeq(q, j + 1, n) \in Seq(Seq(S)) /\ Len(SubSeq(q, j + 1, n)) = n - j
  <2>1. \A i \in (j + 1)..n : q[i] \in Seq(S)
    <3>1. \A i \in (j + 1)..n : i \in 1..Len(q)
      BY <1>1
    <3> QED BY <3>1, ElementOfSeq
  <2>2. /\ SubSeq(q, j + 1, n) \in Seq(Seq(S))
        /\ Len(SubSeq(q, j + 1, n)) = (IF j + 1 <= n THEN n - (j + 1) + 1 ELSE 0)
    BY <2>1, SubSeqProperties
  <2>3. (IF j + 1 <= n THEN n - (j + 1) + 1 ELSE 0) = n - j
    OBVIOUS
  <2> QED BY <2>2, <2>3
<1>3. After(q, k) \in Seq(S)
  BY <1>1, <1>2, FlattenSeqType DEF After
<1>4. ASSUME k = 0 PROVE After(q, k) = FlattenSeq(q)
  <2>1. SubSeq(q, 1, n) = q
    BY <1>1, SubSeqFull
  <2>2. k + 1 = 1
    BY <1>4
  <2> QED BY <1>1, <2>1, <2>2 DEF After
<1>5. ASSUME k = Len(q) PROVE After(q, k) = <<>>
  <2>1. PICK x \in Seq(Seq(S)) : x = SubSeq(q, k + 1, n) /\ Len(x) = 0
    <3>1. n \in 0..n /\ n - n = 0 /\ k = n
      BY <1>1, <1>5
    <3> QED BY <1>2, <3>1
  <2>2. x = <<>>
    BY <2>1, EmptySeq
  <2>3. FlattenSeq(x) = <<>>
    BY <2>2 DEF FlattenSeq
  <2> QED BY <1>1, <2>1, <2>3 DEF After
<1>6. ASSUME k # Len(q) PROVE After(q, k) = q[k + 1] \o After(q, k + 1)
  <2>1. k \in Nat /\ k < Len(q) /\ k + 1 \in 0..n /\ k + 1 \in 1..Len(q)
    BY <1>1, <1>6
  <2>2. q[k + 1] \in Seq(S)
    BY <2>1, ElementOfSeq
  <2>3. PICK a \in Seq(Seq(S)) : a = <<q[k + 1]>>
    BY <2>2, Single
  <2>4. PICK b \in Seq(Seq(S)) : b = SubSeq(q, (k + 1) + 1, n)
    BY <1>2, <2>1
  <2>5. SubSeq(q, k + 1, n) = a \o b
    <3>1. SubSeq(q, k + 1, Len(q)) = <<q[k + 1]>> \o SubSeq(q, k + 2, Len(q))
      BY <2>1, SubSeqFrom
    <3>2. k + 2 = (k + 1) + 1
      BY <2>1
    <3> QED BY <1>1, <2>3, <2>4, <3>1, <3>2
  <2>6. FlattenSeq(a \o b) = FlattenSeq(a) \o FlattenSeq(b)
    BY FlattenSeqJoined
  <2>7. FlattenSeq(a) = q[k + 1]
    BY <2>2, <2>3, FlattenSeqOne
  <2> QED BY <1>1, <2>4, <2>5, <2>6, <2>7 DEF After
<1> QED BY <1>3, <1>4, <1>5, <1>6

-----------------------------------------------------------------------------
(* Strings come back.                                                         *)

\* What scan_string makes of a character, and where it stops.
Unescape(escaped, text, k) ==
  IF escaped[k] /\ text[k] = "n" THEN <<"LF">>
  ELSE IF escaped[k] \/ text[k] # BACKSLASH THEN <<text[k]>> ELSE <<>>

\* scan_string stops at the closing quote, a bad escape, a line feed or the end.
StopsAt(escaped, text, k) ==
  IF escaped[k] THEN get(text, k) \notin Escapes ELSE get(text, k) \in {QUOTE, EOF, "LF", "NUL"}

\* How scan_string runs: which characters are escaped, and where it stops.
ScansOver(escaped, stop, text, i) ==
  /\ escaped = [k \in i..(Len(text) + 1) |->
                  k > i /\ get(text, k - 1) = BACKSLASH /\ ~escaped[k - 1]]
  /\ stop \in i..(Len(text) + 1) /\ StopsAt(escaped, text, stop)
  /\ \A j \in i..(stop - 1) : ~StopsAt(escaped, text, j)
  /\ get(text, stop) = QUOTE =>
        scan_string(text, i) =
          Token("value", <<"str", FlattenSeq([k \in 1..(stop - i) |-> Unescape(escaped, text, i + k - 1)])>>,
                stop + 1)

\* scan_string is given by such a run.
LEMMA ScanStringFacts ==
  ASSUME NEW text \in Texts, NEW i \in 1..(Len(text) + 1)
  PROVE  \E escaped, stop : ScansOver(escaped, stop, text, i)
<1> DEFINE L == Len(text)
           hi == L + 1
           escaped[k \in i..hi] == k > i /\ get(text, k - 1) = BACKSLASH /\ ~escaped[k - 1]
           step == [k \in Nat |-> [e \in BOOLEAN |-> k > i /\ get(text, k - 1) = BACKSLASH /\ ~e]]
<1>1. L \in Nat /\ i \in Nat /\ 1 <= i /\ i <= L + 1 /\ hi \in Nat /\ hi = L + 1
  BY LenProperties DEF Texts
<1>2. step \in Steps(BOOLEAN)
  BY DEF Steps
<1> HIDE DEF L, hi
<1>3. PICK f : RecursFrom(f, BOOLEAN, i, hi, FALSE, step)
  <2> HIDE DEF step
  <2>1. FALSE \in BOOLEAN
    OBVIOUS
  <2> QED BY <1>1, <1>2, <2>1, IntervalRecursion
<1>4. /\ f \in [i..hi -> BOOLEAN]
      /\ f = [k \in i..hi |-> IF k = i THEN FALSE ELSE step[k][f[k - 1]]]
  BY <1>3 DEF RecursFrom
<1>5. f = [k \in i..hi |-> k > i /\ get(text, k - 1) = BACKSLASH /\ ~f[k - 1]]
  <2> HIDE DEF step
  <2>1. ASSUME NEW k \in i..hi PROVE f[k] = (k > i /\ get(text, k - 1) = BACKSLASH /\ ~f[k - 1])
    <3>1. CASE k = i
      <4>1. ~(k > i)
        BY <1>1, <3>1
      <4>2. f[k] = FALSE
        BY <1>4, <3>1, Zenon
      <4> QED BY <4>1, <4>2, Zenon
    <3>2. CASE k # i
      <4>1. k \in Nat /\ k - 1 \in i..hi
        BY <1>1, <3>2
      <4>2. f[k] = step[k][f[k - 1]]
        BY <1>4, <3>2
      <4>3. f[k - 1] \in BOOLEAN
        BY <1>4, <4>1
      <4> QED BY <4>1, <4>2, <4>3 DEF step
    <3> QED BY <3>1, <3>2
  <2>2. f = [k \in i..hi |-> f[k]]
    BY <1>4
  <2> QED BY <2>1, <2>2
<1>6. escaped = [k \in i..hi |-> k > i /\ get(text, k - 1) = BACKSLASH /\ ~escaped[k - 1]]
  BY <1>5
<1> HIDE DEF escaped
<1>7. \A k \in i..hi : escaped[k] => k > i
  BY <1>6
<1> DEFINE Stops(k) == IF escaped[k] THEN get(text, k) \notin Escapes
                       ELSE get(text, k) \in {QUOTE, EOF, "LF", "NUL"}
           stop == CHOOSE k \in i..hi : Stops(k) /\ \A j \in i..(k - 1) : ~Stops(j)
<1>8. get(text, hi) = EOF
  BY <1>1 DEF get, L
<1>9. Stops(hi)
  BY <1>8 DEF Escapes, EOF, QUOTE, BACKSLASH
<1>10. stop \in i..hi /\ Stops(stop) /\ \A j \in i..(stop - 1) : ~Stops(j)
  <2> DEFINE P == {k \in i..hi : Stops(k)}
  <2>1. PICK m \in i..hi : m \in P
    <3>1. hi \in i..hi
      BY <1>1
    <3> QED BY <1>9, <3>1
  <2>2. PICK k \in i..hi : k \in P /\ \A j \in i..(k - 1) : j \notin P
    <3>1. \E k : IsFirst(k, i, hi, P)
      <4> HIDE DEF P
      <4> QED BY <1>1, <2>1, First
    <3> HIDE DEF P
    <3> QED BY <3>1 DEF IsFirst
  <2>3. Stops(k) /\ \A j \in i..(k - 1) : ~Stops(j)
    <3>1. ASSUME NEW j \in i..(k - 1) PROVE ~Stops(j)
      <4>1. j \in i..hi
        BY <1>1, <2>2
      <4> HIDE DEF Stops
      <4> QED BY <2>2, <4>1
    <3> QED BY <2>2, <3>1
  <2> HIDE DEF Stops
  <2> QED BY <2>2, <2>3
<1> DEFINE content == [k \in 1..(stop - i) |-> Unescape(escaped, text, i + k - 1)]
<1>11. scan_string(text, i) =
          IF get(text, stop) = QUOTE
          THEN Token("value", <<"str", FlattenSeq(content)>>, stop + 1)
          ELSE ParseError(IF escaped[stop] THEN stop - 1 ELSE stop)
  BY DEF scan_string, content, Unescape, stop, Stops, escaped, hi, L
<1> QED BY <1>6, <1>10, <1>11 DEF ScansOver, StopsAt, content, hi, L

\* A prefix is the shorter one and one element.
LEMMA Prefix ==
  ASSUME NEW S, NEW s \in Seq(S), NEW j \in Nat, j < Len(s)
  PROVE  SubSeq(s, 1, j + 1) = SubSeq(s, 1, j) \o <<s[j + 1]>>
<1>1. PICK m \in 1..Len(s) : m = j + 1 /\ m - 1 = j
  BY LenProperties
<1>2. 1 \in 1..Len(s) /\ m \in 1..Len(s)
  BY <1>1, LenProperties
<1>3. SubSeq(s, 1, m) = SubSeq(s, 1, m - 1) \o <<s[m]>>
  BY <1>2, SubSeqRecursiveSecond
<1> QED BY <1>1, <1>3

\* What dump_escaped writes for a character.
Escape(c) == CASE c \in {QUOTE, BACKSLASH} -> <<BACKSLASH, c>>
               [] c = "LF"                 -> <<BACKSLASH, "n">>
               [] OTHER                    -> <<c>>

\* dump_escaped writes a character as itself or behind a backslash.
LEMMA EscapeFacts ==
  ASSUME NEW c \in Character
  PROVE  /\ Escape(c) \in Texts
         /\ \/ Escape(c) = <<c>> /\ c \notin {QUOTE, BACKSLASH, "LF"}
            \/ \E e \in Escapes \cap Character :
                  Escape(c) = <<BACKSLASH, e>> /\ c = IF e = "n" THEN "LF" ELSE e
<1>1. BACKSLASH \in Character /\ "n" \in Character /\ QUOTE \in Character
  BY DEF Character, Literals, BACKSLASH, QUOTE
<1>2. /\ QUOTE # "LF" /\ BACKSLASH # "LF" /\ QUOTE # "n" /\ BACKSLASH # "n"
      /\ Escapes = {QUOTE, BACKSLASH, "n"}
  BY DEF QUOTE, BACKSLASH, Escapes
<1>3. ASSUME NEW a \in Character, NEW b \in Character PROVE <<a, b>> \in Texts
  BY DEF Texts
<1>4. CASE c \in {QUOTE, BACKSLASH}
  <2>1. Escape(c) = <<BACKSLASH, c>>
    BY <1>2, <1>4 DEF Escape
  <2> QED BY <1>1, <1>2, <1>3, <1>4, <2>1
<1>5. CASE c = "LF"
  <2>1. Escape(c) = <<BACKSLASH, "n">>
    BY <1>2, <1>5 DEF Escape
  <2> QED BY <1>1, <1>2, <1>3, <1>5, <2>1
<1>6. CASE c \notin {QUOTE, BACKSLASH, "LF"}
  <2>1. Escape(c) = <<c>>
    BY <1>6 DEF Escape
  <2> QED BY <1>6, <2>1, OneCharacter
<1> QED BY <1>4, <1>5, <1>6

\* What is left begins with one or two characters.
LEMMA LeftOne ==
  ASSUME NEW text \in Texts, NEW q \in Nat, NEW c \in Character, NEW t \in Texts,
         Left(text, q, <<c>> \o t)
  PROVE  text[q + 1] = c /\ get(text, q + 1) = c /\ q + 1 <= Len(text) /\ Left(text, q + 1, t)
<1>1. PICK s \in Texts : s = <<c>> /\ Len(s) = 1 /\ s[1] = c
  BY OneCharacter
<1>2. /\ Left(text, q + 1, t) /\ q + 1 <= Len(text)
      /\ \A j \in 1..1 : text[q + j] = s[j]
  <2>1. /\ Left(text, q + Len(s), t) /\ q + Len(s) \in Nat
        /\ q + Len(s) <= Len(text) /\ \A j \in 1..Len(s) : text[q + j] = s[j]
    BY <1>1, LeftJoined
  <2> QED BY <1>1, <2>1
<1>3. text[q + 1] = c
  BY <1>1, <1>2
<1> QED BY <1>2, <1>3 DEF get

\* What two characters in front of a text leave.
LEMMA LeftTwo ==
  ASSUME NEW text \in Texts, NEW q \in Nat, NEW c \in Character, NEW e \in Character, NEW t \in Texts,
         Left(text, q, <<c, e>> \o t)
  PROVE  /\ text[q + 1] = c /\ get(text, q + 1) = c /\ text[q + 2] = e /\ get(text, q + 2) = e
         /\ q + 2 <= Len(text) /\ Left(text, q + 2, t)
<1>1. PICK s \in Texts : s = <<c, e>> /\ Len(s) = 2 /\ s[1] = c /\ s[2] = e
  <2>1. <<c, e>> \in Texts
    BY DEF Texts
  <2>2. Len(<<c, e>>) = 2 /\ <<c, e>>[1] = c /\ <<c, e>>[2] = e
    OBVIOUS
  <2> QED BY <2>1, <2>2
<1>2. /\ Left(text, q + 2, t) /\ q + 2 <= Len(text)
      /\ \A j \in 1..2 : text[q + j] = s[j]
  <2>1. /\ Left(text, q + Len(s), t) /\ q + Len(s) \in Nat
        /\ q + Len(s) <= Len(text) /\ \A j \in 1..Len(s) : text[q + j] = s[j]
    BY <1>1, LeftJoined
  <2> QED BY <1>1, <2>1
<1>3. text[q + 1] = c /\ text[q + 2] = e
  BY <1>1, <1>2
<1>4. q + 1 <= Len(text)
  <2>1. Len(text) \in Nat
    BY LenProperties DEF Texts
  <2> QED BY <1>2, <2>1
<1> QED BY <1>2, <1>3, <1>4 DEF get

\* Joining texts is associative.
LEMMA JoinedTwice ==
  ASSUME NEW a \in Texts, NEW b \in Texts, NEW c \in Texts
  PROVE  (a \o b) \o c = a \o (b \o c)
  BY ConcatAssociative DEF Texts

\* Where scan_string is when it has read the first j characters of a string.
Reads(escaped, text, i, G, p, left, j, s) ==
  /\ p \in Nat /\ i - 1 <= p /\ Left(text, p, left)
  /\ ~escaped[p + 1] /\ \A k \in i..p : ~StopsAt(escaped, text, k)
  /\ G[p - (i - 1)] = SubSeq(s, 1, j)

\* A string is read as it was written.
LEMMA StringBack ==
  ASSUME NEW text \in Texts, NEW q \in Nat, NEW s \in Texts, \A j \in 1..Len(s) : s[j] \notin {EOF, "NUL"},
         NEW t \in Texts, Left(text, q, dump_escaped(s) \o (<<QUOTE>> \o t))
  PROVE  scan_string(text, q + 1) = Token("value", <<"str", s>>, q + Len(dump_escaped(s)) + 2)
<1> DEFINE x == [j \in 1..Len(s) |-> Escape(s[j])]
<1>1. PICK n \in Nat, L \in Nat : n = Len(s) /\ L = Len(text)
  BY LenProperties DEF Texts
<1>2. DOMAIN s = 1..n /\ \A j \in 1..n : s[j] \in Character
  BY <1>1, LenProperties, ElementOfSeq DEF Texts
<1>3. x \in Seq(Texts) /\ Len(x) = n /\ \A j \in 1..n : x[j] = Escape(s[j])
  <2>1. x = [j \in 1..n |-> Escape(s[j])]
    BY <1>1
  <2>2. \A j \in 1..n : x[j] \in Texts
    BY <1>2, <2>1, EscapeFacts
  <2> HIDE DEF x
  <2> QED BY <2>1, <2>2, IsSeq
<1>4. dump_escaped(s) = FlattenSeq(x)
  BY <1>1, <1>2 DEF dump_escaped, Escape
<1> HIDE DEF x
<1>5. PICK tail \in Texts : tail = <<QUOTE>> \o t
  <2>1. <<QUOTE>> \in Texts
    BY LiteralTexts DEF Literals, QUOTE
  <2> QED BY <2>1, Joined
<1>6. ASSUME NEW j \in 0..n
      PROVE  /\ After(x, j) \in Texts /\ (j = 0 => After(x, j) = dump_escaped(s))
             /\ (j = n => After(x, j) = <<>>)
             /\ (j # n => After(x, j) = x[j + 1] \o After(x, j + 1))
  BY <1>3, <1>4, AfterFacts DEF Texts
<1>7. PICK i \in 1..(L + 1) : i = q + 1
  <2>1. Len(dump_escaped(s) \o tail) \in Nat
    <3>1. dump_escaped(s) \o tail \in Texts
      BY EscapedType, Joined
    <3> QED BY <3>1, LenProperties DEF Texts
  <2>2. q <= L
    BY <1>1, <1>5, <2>1 DEF Left
  <2>3. q + 1 \in 1..(L + 1)
    BY <2>2
  <2> QED BY <2>3
<1>8. PICK escaped, stop : ScansOver(escaped, stop, text, i)
  BY <1>1, <1>7, ScanStringFacts
<1>9. /\ escaped = [k \in i..(L + 1) |-> k > i /\ get(text, k - 1) = BACKSLASH /\ ~escaped[k - 1]]
      /\ stop \in i..(L + 1) /\ StopsAt(escaped, text, stop)
      /\ \A j \in i..(stop - 1) : ~StopsAt(escaped, text, j)
  BY <1>1, <1>8 DEF ScansOver
<1>10. /\ ~escaped[i]
       /\ \A k \in (i + 1)..(L + 1) : escaped[k] <=> get(text, k - 1) = BACKSLASH /\ ~escaped[k - 1]
  <2>1. i \in i..(L + 1) /\ ~(i > i) /\ \A k \in (i + 1)..(L + 1) : k > i /\ k \in i..(L + 1)
    BY <1>7
  <2> QED BY <1>9, <2>1
<1> DEFINE c == [k \in 1..(L - i + 1) |-> Unescape(escaped, text, i + k - 1)]
<1>11. PICK M \in Nat : M = L - i + 1
  BY <1>7
<1>12. c \in Seq(Texts) /\ Len(c) = M
  <2>1. ASSUME NEW k \in 1..M PROVE c[k] \in Texts
    <3>1. i + k - 1 \in 1..L
      BY <1>7, <1>11
    <3>2. PICK d \in Character : d = text[i + k - 1]
      BY <1>1, <3>1, ElementOfSeq DEF Texts
    <3>3. <<"LF">> \in Texts /\ <<d>> \in Texts /\ <<>> \in Texts
      BY LiteralTexts, OneCharacter, NoText DEF Literals
    <3>4. c[k] = Unescape(escaped, text, i + k - 1)
      BY <1>11
    <3> HIDE DEF c
    <3> QED BY <3>2, <3>3, <3>4 DEF Unescape
  <2>2. c \in [1..M -> Texts]
    BY <1>11, <2>1
  <2> HIDE DEF c
  <2> QED BY <2>2, IsSeq
<1>13. PICK G : Joins(G, Character, c, M)
  <2>1. c \in Seq(Seq(Character))
    BY <1>12 DEF Texts
  <2> HIDE DEF c
  <2> QED BY <1>12, <2>1, FlattenSeqJoins
<1>14. ASSUME NEW p \in Nat, i - 1 <= p, p + 1 <= L
       PROVE  /\ p - (i - 1) \in 0..M /\ (p + 1) - (i - 1) \in 0..M
              /\ G[(p + 1) - (i - 1)] = G[p - (i - 1)] \o Unescape(escaped, text, p + 1)
  <2>1. PICK k \in 1..M : k = (p + 1) - (i - 1) /\ k - 1 = p - (i - 1) /\ i + k - 1 = p + 1
    <3>1. (p + 1) - (i - 1) \in 1..M
      BY <1>7, <1>11, <1>14
    <3> QED BY <1>7, <3>1
  <2>2. c[k] = Unescape(escaped, text, p + 1)
    BY <1>11, <2>1
  <2>3. G[k] = G[k - 1] \o c[k]
    BY <1>13 DEF Joins
  <2>4. k \in 0..M /\ k - 1 \in 0..M
    OBVIOUS
  <2> HIDE DEF c
  <2> QED BY <2>1, <2>2, <2>3, <2>4
<1> DEFINE P == {j \in Nat : j <= n =>
                    \E p : Reads(escaped, text, i, G, p, After(x, j) \o tail, j, s)}
<1>15. 0 \in P
  <2>1. Left(text, q, After(x, 0) \o tail)
    <3>1. After(x, 0) = dump_escaped(s)
      <4>1. 0 \in 0..n
        OBVIOUS
      <4> QED BY <1>6, <4>1
    <3>2. Left(text, q, dump_escaped(s) \o tail)
      BY <1>5
    <3> QED BY <3>1, <3>2
  <2>2. G[q - (i - 1)] = <<>>
    <3>1. q - (i - 1) = 0
      BY <1>7
    <3> QED BY <1>13, <3>1 DEF Joins
  <2>3. SubSeq(s, 1, 0) = <<>>
    BY SubSeqEmpty DEF Texts
  <2>4. i - 1 <= q /\ i..q = {} /\ q + 1 = i
    BY <1>7
  <2>5. Reads(escaped, text, i, G, q, After(x, 0) \o tail, 0, s)
    BY <1>10, <2>1, <2>2, <2>3, <2>4 DEF Reads
  <2> QED BY <2>5
<1>16. ASSUME NEW j \in Nat, j \in P PROVE j + 1 \in P
  <2> SUFFICES ASSUME j + 1 <= n
               PROVE  \E p : Reads(escaped, text, i, G, p, After(x, j + 1) \o tail, j + 1, s)
    OBVIOUS
  <2>1. PICK p : Reads(escaped, text, i, G, p, After(x, j) \o tail, j, s)
    BY <1>16
  <2>2. /\ p \in Nat /\ i - 1 <= p /\ Left(text, p, After(x, j) \o tail)
        /\ ~escaped[p + 1] /\ \A k \in i..p : ~StopsAt(escaped, text, k)
        /\ G[p - (i - 1)] = SubSeq(s, 1, j)
    BY <2>1 DEF Reads
  <2>3. j \in 0..n /\ j # n /\ j + 1 \in 0..n /\ j + 1 \in 1..n
    OBVIOUS
  <2>4. PICK d \in Character : d = s[j + 1] /\ d \notin {EOF, "NUL"}
    BY <1>1, <1>2, <2>3
  <2>5. PICK rest \in Texts : rest = After(x, j + 1) \o tail
    BY <1>6, <2>3, Joined
  <2>6. Left(text, p, Escape(d) \o rest)
    <3>1. PICK a \in Texts, b \in Texts : a = Escape(d) /\ b = After(x, j + 1)
      BY <1>6, <2>3, EscapeFacts
    <3>2. After(x, j) = a \o b
      BY <1>3, <1>6, <2>3, <2>4, <3>1
    <3>3. (a \o b) \o tail = a \o (b \o tail)
      BY JoinedTwice, SMTT(30)
    <3> QED BY <2>2, <2>5, <3>1, <3>2, <3>3
  <2>7. SubSeq(s, 1, j + 1) = SubSeq(s, 1, j) \o <<d>>
    <3>1. j < Len(s)
      BY <1>1
    <3> QED BY <2>4, <3>1, Prefix DEF Texts
  <2>8. CASE Escape(d) = <<d>> /\ d \notin {QUOTE, BACKSLASH, "LF"}
    <3>1. text[p + 1] = d /\ get(text, p + 1) = d /\ p + 1 <= L /\ Left(text, p + 1, rest)
      BY <1>1, <2>2, <2>6, <2>8, LeftOne
    <3>2. Unescape(escaped, text, p + 1) = <<d>>
      BY <2>2, <2>8, <3>1 DEF Unescape
    <3>3. G[(p + 1) - (i - 1)] = SubSeq(s, 1, j + 1)
      BY <1>14, <2>2, <2>7, <3>1, <3>2
    <3>4. ~StopsAt(escaped, text, p + 1)
      BY <2>2, <2>4, <2>8, <3>1 DEF StopsAt
    <3>5. ~escaped[(p + 1) + 1]
      <4>1. (p + 1) + 1 \in (i + 1)..(L + 1) /\ ((p + 1) + 1) - 1 = p + 1
        BY <1>7, <2>2, <3>1
      <4> QED BY <1>10, <2>8, <3>1, <4>1
    <3>6. \A k \in i..(p + 1) : ~StopsAt(escaped, text, k)
      <4>1. \A k \in i..(p + 1) : k = p + 1 \/ k \in i..p
        BY <1>7, <2>2
      <4> QED BY <2>2, <3>4, <4>1
    <3>7. p + 1 \in Nat /\ i - 1 <= p + 1
      BY <1>7, <2>2
    <3>8. Reads(escaped, text, i, G, p + 1, rest, j + 1, s)
      BY <3>1, <3>3, <3>5, <3>6, <3>7, Zenon DEF Reads
    <3> QED BY <2>5, <3>8
  <2>9. ASSUME NEW e \in Escapes \cap Character, Escape(d) = <<BACKSLASH, e>>,
               d = IF e = "n" THEN "LF" ELSE e
        PROVE  \E p2 : Reads(escaped, text, i, G, p2, rest, j + 1, s)
    <3>1. BACKSLASH \in Character
      BY DEF Character, Literals, BACKSLASH
    <3>2. /\ text[p + 1] = BACKSLASH /\ get(text, p + 1) = BACKSLASH /\ text[p + 2] = e
          /\ get(text, p + 2) = e /\ p + 2 <= L /\ Left(text, p + 2, rest)
      BY <1>1, <2>2, <2>6, <2>9, <3>1, LeftTwo
    <3>3. Unescape(escaped, text, p + 1) = <<>>
      <4>1. BACKSLASH # "n"
        BY DEF BACKSLASH
      <4> QED BY <2>2, <3>2, <4>1 DEF Unescape
    <3>4. escaped[p + 2] /\ ~escaped[p + 3]
      <4>1. /\ p + 2 \in (i + 1)..(L + 1) /\ (p + 2) - 1 = p + 1
            /\ p + 3 \in (i + 1)..(L + 1) /\ (p + 3) - 1 = p + 2
        BY <1>7, <2>2, <3>2
      <4>2. escaped[p + 2] <=> get(text, p + 1) = BACKSLASH /\ ~escaped[p + 1]
        BY <1>10, <4>1
      <4>3. escaped[p + 3] <=> get(text, p + 2) = BACKSLASH /\ ~escaped[p + 2]
        BY <1>10, <4>1
      <4> QED BY <2>2, <3>2, <4>2, <4>3
    <3>5. Unescape(escaped, text, p + 2) = <<d>>
      <4>1. CASE e = "n"
        <5>1. d = "LF"
          BY <2>9, <4>1
        <5> QED BY <3>2, <3>4, <4>1, <5>1 DEF Unescape
      <4>2. CASE e # "n"
        <5>1. d = e
          BY <2>9, <4>2
        <5> QED BY <3>2, <3>4, <4>2, <5>1 DEF Unescape
      <4> QED BY <4>1, <4>2
    <3>6. G[(p + 2) - (i - 1)] = SubSeq(s, 1, j + 1)
      <4>1. /\ p - (i - 1) \in 0..M
            /\ G[(p + 1) - (i - 1)] = G[p - (i - 1)] \o Unescape(escaped, text, p + 1)
        <5>1. p + 1 <= L
          BY <2>2, <3>2
        <5> QED BY <1>14, <2>2, <5>1
      <4>2. G[p - (i - 1)] \o <<>> = G[p - (i - 1)]
        <5>1. G[p - (i - 1)] \in Texts
          BY <1>13, <4>1 DEF Joins, Texts
        <5> QED BY <5>1, ConcatEmptySeq DEF Texts
      <4>3. PICK p1 \in Nat : p1 = p + 1 /\ p1 + 1 = p + 2 /\ i - 1 <= p1 /\ p1 + 1 <= L
        BY <1>7, <2>2, <3>2
      <4>4. G[(p1 + 1) - (i - 1)] = G[p1 - (i - 1)] \o Unescape(escaped, text, p1 + 1)
        BY <1>14, <4>3
      <4>5. G[p1 - (i - 1)] = SubSeq(s, 1, j)
        BY <2>2, <3>3, <4>1, <4>2, <4>3
      <4>6. Unescape(escaped, text, p1 + 1) = <<d>>
        BY <3>5, <4>3
      <4>7. (p1 + 1) - (i - 1) = (p + 2) - (i - 1)
        BY <4>3
      <4>8. G[(p1 + 1) - (i - 1)] = SubSeq(s, 1, j + 1)
        BY <2>7, <4>4, <4>5, <4>6, Zenon
      <4> QED BY <4>7, <4>8, Zenon
    <3>7. ~StopsAt(escaped, text, p + 1) /\ ~StopsAt(escaped, text, p + 2)
      <4>1. BACKSLASH \notin {QUOTE, EOF, "LF", "NUL"}
        BY DEF BACKSLASH, QUOTE, EOF
      <4> QED BY <2>2, <3>2, <3>4, <4>1 DEF StopsAt
    <3>8. \A k \in i..(p + 2) : ~StopsAt(escaped, text, k)
      <4>1. \A k \in i..(p + 2) : k = p + 1 \/ k = p + 2 \/ k \in i..p
        BY <1>7, <2>2
      <4> QED BY <2>2, <3>7, <4>1
    <3>9. p + 2 \in Nat /\ i - 1 <= p + 2 /\ (p + 2) + 1 = p + 3
      BY <1>7, <2>2
    <3>10. Reads(escaped, text, i, G, p + 2, rest, j + 1, s)
      <4>1. ~escaped[(p + 2) + 1]
        BY <3>4, <3>9
      <4> QED BY <3>2, <3>6, <3>8, <3>9, <4>1, Zenon DEF Reads
    <3> QED BY <3>10
  <2>10. \/ Escape(d) = <<d>> /\ d \notin {QUOTE, BACKSLASH, "LF"}
         \/ \E e \in Escapes \cap Character :
                  Escape(d) = <<BACKSLASH, e>> /\ d = IF e = "n" THEN "LF" ELSE e
    BY EscapeFacts
  <2> QED BY <2>5, <2>8, <2>9, <2>10
<1>17. \A j \in Nat : j \in P
  <2> HIDE DEF P
  <2> QED BY <1>15, <1>16, Induction
<1>18. PICK p : Reads(escaped, text, i, G, p, After(x, n) \o tail, n, s)
  <2>1. n \in P
    BY <1>17
  <2> QED BY <2>1
<1>19. /\ p \in Nat /\ i - 1 <= p /\ Left(text, p, tail)
       /\ ~escaped[p + 1] /\ \A k \in i..p : ~StopsAt(escaped, text, k)
       /\ G[p - (i - 1)] = s
  <2>1. After(x, n) \o tail = tail
    <3>1. After(x, n) = <<>>
      <4>1. n \in 0..n
        OBVIOUS
      <4> QED BY <1>6, <4>1
    <3> QED BY <3>1, ConcatEmptySeq DEF Texts
  <2>2. SubSeq(s, 1, n) = s
    BY <1>1, SubSeqFull DEF Texts
  <2> QED BY <1>18, <2>1, <2>2 DEF Reads
<1>20. get(text, p + 1) = QUOTE /\ p + 1 <= L
  <2>1. QUOTE \in Character
    BY DEF Character, Literals, QUOTE
  <2> QED BY <1>1, <1>5, <1>19, <2>1, LeftOne
<1>21. StopsAt(escaped, text, p + 1)
  BY <1>19, <1>20 DEF StopsAt
<1>22. stop = p + 1
  <2>1. ~(stop < p + 1)
    <3>1. ASSUME stop < p + 1 PROVE FALSE
      <4>1. stop \in i..p
        BY <1>9, <1>19, <3>1
      <4> QED BY <1>9, <1>19, <4>1
    <3> QED BY <3>1
  <2>2. ~(stop > p + 1)
    <3>1. ASSUME stop > p + 1 PROVE FALSE
      <4>1. p + 1 \in i..(stop - 1)
        BY <1>7, <1>9, <1>19, <3>1
      <4> QED BY <1>9, <1>21, <4>1
    <3> QED BY <3>1
  <2> QED BY <1>7, <1>9, <1>19, <2>1, <2>2
<1>23. PICK N \in 0..M : N = stop - i /\ N = p - (i - 1)
  <2>1. stop - i = p - (i - 1) /\ p - (i - 1) \in 0..M
    BY <1>7, <1>11, <1>19, <1>20, <1>22
  <2> QED BY <2>1
<1>24. FlattenSeq([k \in 1..N |-> Unescape(escaped, text, i + k - 1)]) = s
  <2> DEFINE y == [k \in 1..N |-> Unescape(escaped, text, i + k - 1)]
             H == [k \in 0..N |-> G[k]]
  <2>1. ASSUME NEW k \in 1..N PROVE y[k] = c[k] /\ c[k] \in Texts
    <3>1. k \in 1..M /\ k \in 1..(L - i + 1)
      BY <1>11
    <3>2. c[k] = Unescape(escaped, text, i + k - 1)
      BY <3>1
    <3>3. c[k] \in Texts
      <4> HIDE DEF c
      <4> QED BY <1>12, <3>1, ElementOfSeq
    <3> QED BY <3>2, <3>3
  <2>2. y \in Seq(Texts) /\ Len(y) = N
    <3>1. y \in [1..N -> Texts]
      <4>1. \A k \in 1..N : y[k] \in Texts
        <5> HIDE DEF y, c
        <5> QED BY <2>1
      <4> QED BY <4>1
    <3> HIDE DEF y
    <3> QED BY <3>1, IsSeq
  <2>3. H \in [0..N -> Texts] /\ H[0] = <<>> /\ H[N] = G[N]
    <3>1. \A k \in 0..N : k \in 0..M
      OBVIOUS
    <3>2. G \in [0..M -> Texts] /\ G[0] = <<>>
      BY <1>13 DEF Joins, Texts
    <3> QED BY <3>1, <3>2
  <2>4. ASSUME NEW k \in 1..N PROVE H[k] = H[k - 1] \o y[k]
    <3>1. k \in 1..M /\ k \in 0..N /\ k - 1 \in 0..N
      OBVIOUS
    <3>2. G[k] = G[k - 1] \o c[k]
      BY <1>13, <3>1 DEF Joins
    <3>3. y[k] = c[k]
      BY <2>1
    <3>4. H[k] = G[k] /\ H[k - 1] = G[k - 1]
      BY <3>1
    <3> HIDE DEF y, c, H
    <3> QED BY <3>2, <3>3, <3>4
  <2> HIDE DEF y, H, c
  <2>5. FlattenSeq(y) = H[N]
    <3>1. PICK z \in Seq(Seq(Character)) : z = y
      BY <2>2 DEF Texts
    <3>2. H \in [0..N -> Seq(Character)] /\ N \in Nat
      BY <2>3 DEF Texts
    <3>3. Len(z) = N /\ H[0] = <<>> /\ \A k \in 1..N : H[k] = H[k - 1] \o z[k]
      BY <2>2, <2>3, <2>4, <3>1
    <3>4. FlattenSeq(z) = H[N]
      BY <3>2, <3>3, FlattenSeqIs, ZenonT(40)
    <3> QED BY <3>1, <3>4
  <2>6. FlattenSeq(y) = s
    BY <1>19, <1>23, <2>3, <2>5
  <2> QED BY <2>6 DEF y
<1>25. scan_string(text, i) = Token("value", <<"str", s>>, stop + 1)
  <2>1. get(text, stop) = QUOTE
    BY <1>20, <1>22
  <2>2. scan_string(text, i) =
          Token("value", <<"str", FlattenSeq([k \in 1..(stop - i) |-> Unescape(escaped, text, i + k - 1)])>>,
                stop + 1)
    BY <1>8, <2>1 DEF ScansOver
  <2> QED BY <1>23, <1>24, <2>2
<1>26. stop + 1 = q + Len(dump_escaped(s)) + 2
  <2>1. PICK a \in Texts, m \in Nat, l \in Nat : a = dump_escaped(s) /\ m = Len(a) /\ l = Len(tail)
    BY EscapedType, LenProperties DEF Texts
  <2>2. q + (m + l) = L
    <3>1. Len(a \o tail) = m + l
      BY <2>1, ConcatProperties DEF Texts
    <3> QED BY <1>1, <1>5, <2>1, <3>1 DEF Left
  <2>3. p + l = L
    BY <1>1, <1>19, <2>1 DEF Left
  <2> QED BY <1>19, <1>22, <2>1, <2>2, <2>3
<1> QED BY <1>7, <1>25, <1>26

-----------------------------------------------------------------------------
(* What dump writes, level by level, is what the values are written as.       *)

\* What a piece stands for if w tells what the values are written as.
Spelt(w, y) == IF y \in TextPieces THEN y[2] ELSE w[y]

\* The text of pieces whose values are written as w says.
Spellings(w, p) == [i \in 1..Len(p) |-> Spelt(w, p[i])]
TextOf(w, p) == FlattenSeq(Spellings(w, p))

\* It is a text.
LEMMA SpellingsType ==
  ASSUME NEW S, NEW w \in [S -> Texts], NEW p \in Seq(S \cup TextPieces)
  PROVE  /\ Spellings(w, p) \in Seq(Texts) /\ Len(Spellings(w, p)) = Len(p)
         /\ \A i \in 1..Len(p) : Spellings(w, p)[i] = Spelt(w, p[i]) /\ Spelt(w, p[i]) \in Texts
         /\ TextOf(w, p) \in Texts
<1>1. Len(p) \in Nat
  BY LenProperties
<1>2. ASSUME NEW y \in S \cup TextPieces PROVE Spelt(w, y) \in Texts
  BY DEF Spelt, TextPieces
<1>3. \A i \in 1..Len(p) : Spelt(w, p[i]) \in Texts
  BY <1>2, ElementOfSeq
<1>4. PICK q : q = Spellings(w, p)
  OBVIOUS
<1>5. q \in [1..Len(p) -> Texts] /\ \A i \in 1..Len(p) : q[i] = Spelt(w, p[i])
  BY <1>3, <1>4 DEF Spellings
<1>6. q \in Seq(Texts) /\ Len(q) = Len(p)
  BY <1>1, <1>5, IsSeq
<1>7. FlattenSeq(q) \in Texts
  BY <1>6, FlattenSeqType DEF Texts
<1> QED BY <1>3, <1>4, <1>5, <1>6, <1>7 DEF TextOf

\* The text of joined pieces joins their texts.
LEMMA TextOfJoined ==
  ASSUME NEW S, NEW w \in [S -> Texts], NEW a \in Seq(S \cup TextPieces), NEW b \in Seq(S \cup TextPieces)
  PROVE  TextOf(w, a \o b) = TextOf(w, a) \o TextOf(w, b)
<1>1. PICK p \in Seq(S \cup TextPieces) : p = a \o b
  BY ConcatProperties
<1>2. PICK m \in Nat, n \in Nat : m = Len(a) /\ n = Len(b)
  BY LenProperties
<1>3. Len(p) = m + n /\ \A i \in 1..(m + n) : p[i] = IF i <= m THEN a[i] ELSE b[i - m]
  <2>1. /\ Len(p) = Len(a) + Len(b)
        /\ \A i \in 1..(Len(a) + Len(b)) : p[i] = IF i <= Len(a) THEN a[i] ELSE b[i - Len(a)]
    BY <1>1, ConcatProperties
  <2> QED BY <1>2, <2>1
<1>4. PICK x, y, z : x = Spellings(w, a) /\ y = Spellings(w, b) /\ z = Spellings(w, p)
  OBVIOUS
<1>5. x \in Seq(Texts) /\ Len(x) = m /\ \A i \in 1..m : x[i] = Spelt(w, a[i])
  BY <1>2, <1>4, SpellingsType
<1>6. y \in Seq(Texts) /\ Len(y) = n /\ \A i \in 1..n : y[i] = Spelt(w, b[i])
  BY <1>2, <1>4, SpellingsType
<1>7. z \in Seq(Texts) /\ Len(z) = m + n /\ \A i \in 1..(m + n) : z[i] = Spelt(w, p[i])
  BY <1>3, <1>4, SpellingsType
<1>8. PICK u \in Seq(Texts) : u = x \o y
  BY <1>5, <1>6, ConcatProperties
<1>9. Len(u) = m + n /\ \A i \in 1..(m + n) : u[i] = IF i <= m THEN x[i] ELSE y[i - m]
  <2>1. /\ Len(u) = Len(x) + Len(y)
        /\ \A i \in 1..(Len(x) + Len(y)) : u[i] = IF i <= Len(x) THEN x[i] ELSE y[i - Len(x)]
    BY <1>5, <1>6, <1>8, ConcatProperties
  <2> QED BY <1>5, <1>6, <2>1
<1>10. ASSUME NEW i \in 1..(m + n) PROVE z[i] = u[i]
  <2>1. CASE i <= m
    <3>1. i \in 1..m
      BY <2>1
    <3> QED BY <1>3, <1>5, <1>7, <1>9, <2>1, <3>1
  <2>2. CASE ~(i <= m)
    <3>1. i - m \in 1..n
      BY <2>2
    <3>2. p[i] = b[i - m] /\ u[i] = y[i - m]
      BY <1>3, <1>9, <2>2
    <3>3. y[i - m] = Spelt(w, b[i - m])
      BY <1>6, <3>1
    <3> QED BY <1>7, <3>2, <3>3
  <2> QED BY <2>1, <2>2
<1>11. z = u
  BY <1>7, <1>9, <1>10, SeqEqual
<1>12. FlattenSeq(x \o y) = FlattenSeq(x) \o FlattenSeq(y)
  BY <1>5, <1>6, FlattenSeqJoined DEF Texts
<1> QED BY <1>1, <1>4, <1>8, <1>11, <1>12 DEF TextOf

\* The same, in a form the provers find at once.
PiecesOf(S) == Seq(S \cup TextPieces)

\* The same behind a name, which keeps the equality in one piece.
Splits(w, a, b) == TextOf(w, a \o b) = TextOf(w, a) \o TextOf(w, b)

LEMMA TextOfSplits ==
  ASSUME NEW S, NEW w \in [S -> Texts], NEW a \in PiecesOf(S), NEW b \in PiecesOf(S)
  PROVE  Splits(w, a, b)
  BY TextOfJoined DEF PiecesOf, Splits

\* The text of one piece, and of none.
LEMMA TextOfOne ==
  ASSUME NEW S, NEW w \in [S -> Texts], NEW y \in S \cup TextPieces
  PROVE  TextOf(w, <<y>>) = Spelt(w, y) /\ Spelt(w, y) \in Texts
<1>1. PICK p \in Seq(S \cup TextPieces) : p = <<y>> /\ Len(p) = 1 /\ p[1] = y
  BY Single
<1>2. PICK z \in Seq(Texts) : z = Spellings(w, p) /\ Len(z) = 1 /\ z[1] = Spelt(w, y) /\ z[1] \in Texts
  <2>1. PICK z : z = Spellings(w, p)
    OBVIOUS
  <2>2. z \in Seq(Texts) /\ Len(z) = 1
        /\ \A i \in 1..1 : z[i] = Spelt(w, p[i]) /\ Spelt(w, p[i]) \in Texts
    BY <1>1, <2>1, SpellingsType
  <2>3. z[1] = Spelt(w, y) /\ z[1] \in Texts
    BY <1>1, <2>2
  <2> QED BY <2>1, <2>2, <2>3
<1>3. PICK s \in Texts : s = z[1]
  BY <1>2
<1>4. z = <<s>>
  BY <1>2, <1>3
<1>5. FlattenSeq(<<s>>) = s
  BY FlattenSeqOne DEF Texts
<1> QED BY <1>1, <1>2, <1>3, <1>4, <1>5 DEF TextOf

LEMMA TextOfNone ==
  ASSUME NEW w
  PROVE  TextOf(w, <<>>) = <<>>
<1>1. Len(<<>>) = 0
  OBVIOUS
<1>2. Spellings(w, <<>>) = <<>>
  BY <1>1 DEF Spellings
<1> QED BY <1>2 DEF TextOf, FlattenSeq

\* Flattening the pieces flattens what they stand for.
Flattens(w, q, t) == TextOf(w, FlattenSeq(q)) = FlattenSeq(t)

\* The text of flattened pieces joins their texts.
LEMMA TextOfFlat ==
  ASSUME NEW S, NEW w \in [S -> Texts], NEW q \in Seq(Seq(S \cup TextPieces)),
         NEW t \in Seq(Texts), Len(t) = Len(q), \A i \in 1..Len(q) : t[i] = TextOf(w, q[i])
  PROVE  Flattens(w, q, t)
<1>1. PICK n \in Nat : n = Len(q)
  BY LenProperties
<1> DEFINE T == S \cup TextPieces
<1> HIDE DEF T
<1>2. PICK g : Joins(g, T, q, n) /\ FlattenSeq(q) = g[n]
  BY <1>1, FlattenSeqJoins DEF T
<1>3. g \in [0..n -> Seq(T)] /\ g[0] = <<>> /\ \A i \in 1..n : g[i] = g[i - 1] \o q[i]
  BY <1>2 DEF Joins
<1> DEFINE h == [i \in 0..n |-> TextOf(w, g[i])]
<1>4. h \in [0..n -> Texts]
  <2>1. ASSUME NEW i \in 0..n PROVE TextOf(w, g[i]) \in Texts
    <3>1. PICK p \in Seq(S \cup TextPieces) : p = g[i]
      BY <1>3 DEF T
    <3> QED BY <3>1, SpellingsType
  <2> QED BY <2>1
<1>5. h[0] = <<>>
  BY <1>3, TextOfNone
<1>6. ASSUME NEW i \in 1..n PROVE h[i] = h[i - 1] \o t[i]
  <2>1. i - 1 \in 0..n /\ i \in 0..n
    OBVIOUS
  <2>2. PICK a \in Seq(S \cup TextPieces) : a = g[i - 1]
    BY <1>3, <2>1 DEF T
  <2>3. PICK b \in Seq(S \cup TextPieces) : b = q[i]
    BY <1>1, ElementOfSeq
  <2>4. TextOf(w, a \o b) = TextOf(w, a) \o TextOf(w, b)
    <3>1. a \in PiecesOf(S) /\ b \in PiecesOf(S)
      BY DEF PiecesOf
    <3>2. Splits(w, a, b)
      BY <3>1, TextOfSplits
    <3> QED BY <3>2 DEF Splits
  <2>5. g[i] = a \o b
    BY <1>3, <2>2, <2>3
  <2>6. h[i] = TextOf(w, a \o b) /\ h[i - 1] = TextOf(w, a)
    BY <2>1, <2>2, <2>5
  <2>7. t[i] = TextOf(w, b)
    BY <1>1, <2>3
  <2> HIDE DEF h
  <2> QED BY <2>4, <2>6, <2>7
<1>7. h[n] = TextOf(w, FlattenSeq(q))
  BY <1>2
<1> HIDE DEF h
<1>8. FlattenSeq(t) = h[n]
  <2>1. PICK z \in Seq(Seq(Character)) : z = t
    BY DEF Texts
  <2>2. h \in [0..n -> Seq(Character)]
    BY <1>4 DEF Texts
  <2>3. Len(z) = n /\ \A i \in 1..n : h[i] = h[i - 1] \o z[i]
    BY <1>1, <1>6, <2>1
  <2>4. FlattenSeq(z) = h[n]
    BY <1>5, <2>2, <2>3, FlattenSeqIs
  <2> QED BY <2>1, <2>4
<1> QED BY <1>7, <1>8 DEF Flattens

\* w tells what the values in S are written as.
Writes(S, w) == w \in [S -> Texts] /\ \A x \in S : w[x] = TextOf(w, Pieces(x))

\* The text of pieces is given by how each is written.
LEMMA SpeltSame ==
  ASSUME NEW p, NEW w1, NEW w2, \A i \in 1..Len(p) : Spelt(w1, p[i]) = Spelt(w2, p[i])
  PROVE  TextOf(w1, p) = TextOf(w2, p)
  BY DEF TextOf, Spellings

\* The pieces of a nested value are of a lower rank.
LEMMA PiecesIn ==
  ASSUME NEW S, NEW r, Nested(S, r), NEW x \in S
  PROVE  /\ r[x] \in Nat /\ Pieces(x) \in Seq(Below(S, r, r[x]))
         /\ Pieces(x) \in Seq(S \cup TextPieces)
<1>1. PICK m \in Nat : m = r[x]
  BY DEF Nested
<1>2. x \in Below(S, r, m + 1)
  BY <1>1 DEF Below
<1>3. Pieces(x) \in Seq(Below(S, r, m))
  BY <1>2, PiecesType
<1>4. Below(S, r, m) \subseteq S \cup TextPieces
  BY DEF Below
<1> QED BY <1>1, <1>3, <1>4

\* Values are written as something, from the flat ones to the nested ones.
LEMMA WritesExists ==
  ASSUME NEW S, NEW r, Nested(S, r)
  PROVE  \E w : Writes(S, w)
<1> DEFINE W == [S -> Texts]
           step == [k \in Nat |-> [w \in W |->
                     [x \in S |-> IF r[x] = k THEN TextOf(w, Pieces(x)) ELSE w[x]]]]
<1>1. \A x \in S : r[x] \in Nat
  BY DEF Nested
<1>2. step \in Steps(W)
  <2>1. ASSUME NEW k \in Nat, NEW w \in W
        PROVE  [x \in S |-> IF r[x] = k THEN TextOf(w, Pieces(x)) ELSE w[x]] \in W
    <3>1. ASSUME NEW x \in S PROVE TextOf(w, Pieces(x)) \in Texts
      BY PiecesIn, SpellingsType
    <3> QED BY <3>1
  <2> HIDE DEF W
  <2> QED BY <2>1 DEF Steps
<1>3. PICK a \in W : TRUE
  <2>1. [x \in S |-> <<>>] \in W
    BY NoText
  <2> QED BY <2>1
<1>4. PICK f : Recurs(f, W, a, step)
  <2> HIDE DEF step, W
  <2> QED BY <1>2, <1>3, Recursion
<1>5. /\ f \in [Nat -> W]
      /\ \A k \in Nat : f[k + 1] = [x \in S |-> IF r[x] = k THEN TextOf(f[k], Pieces(x)) ELSE f[k][x]]
  <2>1. f \in [Nat -> W] /\ \A k \in Nat : f[k + 1] = step[k][f[k]]
    <3> HIDE DEF step, W
    <3> QED BY <1>4 DEF Recurs
  <2>2. ASSUME NEW k \in Nat
        PROVE  f[k + 1] = [x \in S |-> IF r[x] = k THEN TextOf(f[k], Pieces(x)) ELSE f[k][x]]
    <3>1. f[k] \in W /\ f[k + 1] = step[k][f[k]]
      <4> HIDE DEF step, W
      <4> QED BY <2>1
    <3>2. step[k][f[k]] = [x \in S |-> IF r[x] = k THEN TextOf(f[k], Pieces(x)) ELSE f[k][x]]
      <4> HIDE DEF W
      <4> QED BY <3>1
    <3> QED BY <3>1, <3>2
  <2> QED BY <2>1, <2>2
<1> HIDE DEF step
<1>6. ASSUME NEW k \in Nat PROVE f[k] \in [S -> Texts]
  BY <1>5
<1> DEFINE w == [x \in S |-> f[r[x] + 1][x]]
<1>7. w \in [S -> Texts]
  <2>1. ASSUME NEW x \in S PROVE f[r[x] + 1][x] \in Texts
    <3>1. r[x] + 1 \in Nat
      BY <1>1
    <3> QED BY <1>6, <3>1
  <2> QED BY <2>1
<1>8. ASSUME NEW x \in S PROVE \A k \in Nat : f[r[x] + 1 + k][x] = w[x]
  <2> DEFINE P == {k \in Nat : f[r[x] + 1 + k][x] = w[x]}
  <2>1. 0 \in P
    <3>1. r[x] + 1 + 0 = r[x] + 1
      BY <1>1
    <3> QED BY <3>1
  <2>2. ASSUME NEW k \in Nat, k \in P PROVE k + 1 \in P
    <3>1. PICK m \in Nat : m = r[x] + 1 + k /\ m + 1 = r[x] + 1 + (k + 1) /\ r[x] # m
      BY <1>1
    <3>2. f[m + 1][x] = f[m][x]
      <4>1. f[m + 1] = [y \in S |-> IF r[y] = m THEN TextOf(f[m], Pieces(y)) ELSE f[m][y]]
        BY <1>5
      <4>2. r[x] # m
        BY <3>1
      <4> QED BY <4>1, <4>2
    <3>3. f[m][x] = w[x]
      BY <2>2, <3>1
    <3> HIDE DEF w
    <3> QED BY <3>1, <3>2, <3>3
  <2>3. \A k \in Nat : k \in P
    <3> HIDE DEF P
    <3> QED BY <2>1, <2>2, Induction
  <2> QED BY <2>3
<1>9. ASSUME NEW x \in S PROVE w[x] = TextOf(w, Pieces(x))
  <2>1. PICK m \in Nat : m = r[x]
    BY <1>1
  <2>2. w[x] = TextOf(f[m], Pieces(x))
    BY <1>5, <2>1
  <2>3. PICK p : p = Pieces(x)
    OBVIOUS
  <2>4. p \in Seq(Below(S, r, m))
    BY <2>1, <2>3, PiecesIn
  <2>5. ASSUME NEW i \in 1..Len(p) PROVE Spelt(f[m], p[i]) = Spelt(w, p[i])
    <3>1. PICK y \in Below(S, r, m) : y = p[i]
      BY <2>4, ElementOfSeq
    <3>2. CASE y \in TextPieces
      BY <3>1, <3>2 DEF Spelt
    <3>3. CASE y \notin TextPieces
      <4>1. y \in S /\ r[y] < m
        BY <3>1, <3>3 DEF Below
      <4>2. PICK k \in Nat : m = r[y] + 1 + k
        <5>1. r[y] \in Nat
          BY <1>1, <4>1
        <5>2. m - (r[y] + 1) \in Nat /\ m = r[y] + 1 + (m - (r[y] + 1))
          BY <4>1, <5>1
        <5> QED BY <5>2
      <4>3. f[m][y] = w[y]
        BY <1>8, <4>1, <4>2
      <4> HIDE DEF w
      <4> QED BY <3>1, <3>3, <4>3 DEF Spelt
    <3> QED BY <3>2, <3>3
  <2>6. TextOf(f[m], p) = TextOf(w, p)
    <3> HIDE DEF w
    <3> QED BY <2>5, SpeltSame
  <2> HIDE DEF w
  <2> QED BY <2>2, <2>3, <2>6
<1> HIDE DEF w
<1> QED BY <1>7, <1>9 DEF Writes

\* Unfolding changes no text.
LEMMA UnfoldText ==
  ASSUME NEW S, NEW r, Nested(S, r), NEW w, Writes(S, w), NEW m \in Nat,
         NEW p \in Seq(Below(S, r, m + 1))
  PROVE  TextOf(w, Unfold(p)) = TextOf(w, p)
<1>1. w \in [S -> Texts] /\ \A x \in S : w[x] = TextOf(w, Pieces(x))
  BY DEF Writes
<1>2. p \in Seq(S \cup TextPieces)
  <2>1. Below(S, r, m + 1) \subseteq S \cup TextPieces
    BY DEF Below
  <2> QED BY <2>1
<1>3. Len(p) \in Nat /\ DOMAIN p = 1..Len(p) /\ \A i \in 1..Len(p) : p[i] \in S \cup TextPieces
  BY <1>2, LenProperties, ElementOfSeq
<1>4. CASE \A i \in 1..Len(p) : p[i][1] = "text"
  <2>1. Unfold(p) = p
    BY <1>3, <1>4 DEF Unfold
  <2> QED BY <2>1
<1>5. CASE ~(\A i \in 1..Len(p) : p[i][1] = "text")
  <2> DEFINE q == [i \in 1..Len(p) |-> Pieces(p[i])]
             t == Spellings(w, p)
  <2>1. Unfold(p) = FlattenSeq(q)
    BY <1>3, <1>5 DEF Unfold
  <2>2. t \in Seq(Texts) /\ Len(t) = Len(p) /\ \A i \in 1..Len(p) : t[i] = Spelt(w, p[i])
    <3> HIDE DEF t
    <3>1. t = Spellings(w, p)
      BY DEF t
    <3> QED BY <1>1, <1>2, <3>1, SpellingsType
  <2> HIDE DEF t
  <2>3. ASSUME NEW i \in 1..Len(p)
        PROVE  q[i] \in Seq(S \cup TextPieces) /\ t[i] = TextOf(w, q[i])
    <3>1. PICK y \in S \cup TextPieces : y = p[i]
      BY <1>3
    <3>2. q[i] = Pieces(y) /\ t[i] = Spelt(w, y)
      BY <2>2, <3>1
    <3>3. CASE y \in TextPieces
      <4>1. Pieces(y) = <<y>>
        BY <3>3 DEF Pieces, TextPieces
      <4>2. <<y>> \in Seq(S \cup TextPieces)
        BY Single
      <4>3. TextOf(w, <<y>>) = Spelt(w, y)
        BY <1>1, TextOfOne
      <4> HIDE DEF q
      <4> QED BY <3>2, <4>1, <4>2, <4>3
    <3>4. CASE y \notin TextPieces
      <4>1. y \in S
        BY <3>4
      <4>2. Pieces(y) \in Seq(S \cup TextPieces)
        BY <4>1, PiecesIn
      <4>3. Spelt(w, y) = w[y]
        BY <3>4 DEF Spelt
      <4> HIDE DEF q
      <4> QED BY <1>1, <3>2, <4>1, <4>2, <4>3
    <3> QED BY <3>3, <3>4
  <2>4. q \in Seq(Seq(S \cup TextPieces)) /\ Len(q) = Len(p)
    <3>1. q \in [1..Len(p) -> Seq(S \cup TextPieces)]
      <4>1. \A i \in 1..Len(p) : q[i] \in Seq(S \cup TextPieces)
        <5> HIDE DEF q
        <5> QED BY <2>3
      <4> QED BY <4>1
    <3> HIDE DEF q
    <3> QED BY <1>3, <3>1, IsSeq
  <2> HIDE DEF q
  <2>5. TextOf(w, FlattenSeq(q)) = FlattenSeq(t)
    <3>1. Flattens(w, q, t)
      BY <1>1, <2>2, <2>3, <2>4, TextOfFlat
    <3> QED BY <3>1 DEF Flattens
  <2>6. TextOf(w, p) = FlattenSeq(t)
    BY DEF TextOf, t
  <2> QED BY <2>1, <2>5, <2>6
<1> QED BY <1>4, <1>5

\* The levels of dump.
Levels(l, S, r, x, depth) ==
  /\ l[0] = <<x>> /\ \A n \in 1..depth : l[n] = Unfold(l[n - 1])
  /\ \A n \in 0..depth : l[n] \in Seq(Below(S, r, depth - n))
  /\ l[depth] \in Seq(TextPieces)
  /\ dump(x, depth) = FlattenSeq([i \in 1..Len(l[depth]) |-> l[depth][i][2]])

\* dump unfolds a value level by level until only texts are left.
LEMMA DumpLevels ==
  ASSUME NEW S, NEW r, Nested(S, r), NEW depth \in Nat, NEW x \in S, r[x] < depth
  PROVE  \E l : Levels(l, S, r, x, depth)
<1> DEFINE level[n \in 0..depth] == IF n = 0 THEN <<x>> ELSE Unfold(level[n - 1])
           All == UNION {Seq(Below(S, r, m)) : m \in Nat}
           step == [n \in Nat |-> [p \in All |-> Unfold(p)]]
<1>1. ASSUME NEW p \in All PROVE Unfold(p) \in All
  <2>1. PICK m \in Nat : p \in Seq(Below(S, r, m))
    OBVIOUS
  <2>2. p \in Seq(Below(S, r, m + 1))
    <3>1. \A y \in S : r[y] \in Nat
      BY DEF Nested
    <3>2. Below(S, r, m) \subseteq Below(S, r, m + 1)
      BY <3>1 DEF Below
    <3> QED BY <2>1, <3>2
  <2>3. Unfold(p) \in Seq(Below(S, r, m))
    BY <2>2, UnfoldType
  <2> QED BY <2>3
<1>2. step \in Steps(All)
  <2> HIDE DEF All
  <2> QED BY <1>1 DEF Steps
<1>3. <<x>> \in Seq(Below(S, r, depth)) /\ <<x>> \in All
  <2>1. x \in Below(S, r, depth)
    BY DEF Below
  <2>2. <<x>> \in Seq(Below(S, r, depth))
    BY <2>1, Single
  <2> QED BY <2>2
<1> HIDE DEF All
<1>4. PICK f : RecursFrom(f, All, 0, depth, <<x>>, step)
  <2> HIDE DEF step
  <2>1. PICK a \in All : a = <<x>>
    BY <1>3
  <2>2. 0 \in Nat
    OBVIOUS
  <2>3. \E f : RecursFrom(f, All, 0, depth, a, step)
    BY <1>2, <2>2, IntervalRecursion
  <2> QED BY <2>1, <2>3
<1>5. /\ f \in [0..depth -> All]
      /\ f = [n \in 0..depth |-> IF n = 0 THEN <<x>> ELSE step[n][f[n - 1]]]
  BY <1>4 DEF RecursFrom
<1>6. f = [n \in 0..depth |-> IF n = 0 THEN <<x>> ELSE Unfold(f[n - 1])]
  <2> HIDE DEF step
  <2>1. ASSUME NEW n \in 0..depth, n # 0 PROVE f[n] = Unfold(f[n - 1])
    <3>1. n \in Nat /\ n - 1 \in 0..depth
      BY <2>1
    <3>2. f[n] = step[n][f[n - 1]]
      BY <1>5, <2>1
    <3>3. f[n - 1] \in All
      BY <1>5, <3>1
    <3> QED BY <3>1, <3>2, <3>3 DEF step
  <2>2. f[0] = <<x>> /\ f = [n \in 0..depth |-> f[n]]
    BY <1>5
  <2> QED BY <2>1, <2>2
<1>7. level = [n \in 0..depth |-> IF n = 0 THEN <<x>> ELSE Unfold(level[n - 1])]
  BY <1>6
<1> HIDE DEF level
<1>8. level[0] = <<x>> /\ \A n \in 1..depth : level[n] = Unfold(level[n - 1])
  <2>1. 0 \in 0..depth /\ \A n \in 1..depth : n \in 0..depth /\ n # 0
    OBVIOUS
  <2> QED BY <1>7, <2>1
<1>9. \A n \in 0..depth : level[n] \in Seq(Below(S, r, depth - n))
  <2> DEFINE P == {n \in Nat : n <= depth => level[n] \in Seq(Below(S, r, depth - n))}
  <2>1. 0 \in P
    <3>1. depth - 0 = depth
      OBVIOUS
    <3> QED BY <1>3, <1>8, <3>1
  <2>2. ASSUME NEW n \in Nat, n \in P PROVE n + 1 \in P
    <3> SUFFICES ASSUME n + 1 <= depth PROVE level[n + 1] \in Seq(Below(S, r, depth - (n + 1)))
      OBVIOUS
    <3>1. level[n] \in Seq(Below(S, r, depth - n))
      BY <2>2
    <3>2. PICK m \in Nat : m = depth - (n + 1) /\ depth - n = m + 1
      OBVIOUS
    <3>3. level[n + 1] = Unfold(level[n])
      <4>1. n + 1 \in 1..depth /\ (n + 1) - 1 = n
        OBVIOUS
      <4> QED BY <1>8, <4>1
    <3>4. level[n] \in Seq(Below(S, r, m + 1))
      BY <3>1, <3>2
    <3>5. Unfold(level[n]) \in Seq(Below(S, r, m))
      BY <3>4, UnfoldType
    <3> QED BY <3>2, <3>3, <3>5
  <2>3. \A n \in Nat : n \in P
    <3> HIDE DEF P
    <3> QED BY <2>1, <2>2, Induction
  <2>4. \A n \in 0..depth : n \in Nat /\ n <= depth
    OBVIOUS
  <2> HIDE DEF level
  <2> QED BY <2>3, <2>4
<1>10. Below(S, r, 0) = TextPieces
  <2>1. \A y \in S : r[y] \in Nat
    BY DEF Nested
  <2> QED BY <2>1 DEF Below
<1>11. level[depth] \in Seq(TextPieces) /\ DOMAIN level[depth] = 1..Len(level[depth])
  <2>1. depth \in 0..depth /\ depth - depth = 0
    OBVIOUS
  <2>2. level[depth] \in Seq(Below(S, r, 0))
    BY <1>9, <2>1
  <2> QED BY <1>10, <2>2, LenProperties
<1>12. dump(x, depth) = FlattenSeq([i \in DOMAIN level[depth] |-> level[depth][i][2]])
  BY DEF dump, level
<1>13. Levels(level, S, r, x, depth)
  BY <1>8, <1>9, <1>11, <1>12 DEF Levels
<1> QED BY <1>13

\* What dump writes.
LEMMA DumpWrites ==
  ASSUME NEW S, NEW r, Nested(S, r), NEW depth \in Nat, NEW x \in S, r[x] < depth,
         NEW w, Writes(S, w)
  PROVE  dump(x, depth) = w[x]
<1>1. PICK l : Levels(l, S, r, x, depth)
  BY DumpLevels
<1>2. w \in [S -> Texts]
  BY DEF Writes
<1>3. x \notin TextPieces
  BY NoValueIsText DEF TextPieces
<1>4. TextOf(w, <<x>>) = w[x]
  <2>1. x \in S \cup TextPieces
    OBVIOUS
  <2>2. TextOf(w, <<x>>) = Spelt(w, x)
    BY <1>2, <2>1, TextOfOne
  <2> QED BY <1>3, <2>2 DEF Spelt
<1> DEFINE P == {n \in Nat : n <= depth => TextOf(w, l[n]) = w[x]}
<1>5. 0 \in P
  BY <1>1, <1>4 DEF Levels
<1>6. ASSUME NEW n \in Nat, n \in P PROVE n + 1 \in P
  <2> SUFFICES ASSUME n + 1 <= depth PROVE TextOf(w, l[n + 1]) = w[x]
    OBVIOUS
  <2>1. PICK m \in Nat : m = depth - (n + 1) /\ depth - n = m + 1
    OBVIOUS
  <2>2. n \in 0..depth /\ n + 1 \in 1..depth /\ (n + 1) - 1 = n
    OBVIOUS
  <2>3. l[n] \in Seq(Below(S, r, m + 1))
    BY <1>1, <2>1, <2>2 DEF Levels
  <2>4. l[n + 1] = Unfold(l[n])
    BY <1>1, <2>2 DEF Levels
  <2>5. TextOf(w, Unfold(l[n])) = TextOf(w, l[n])
    BY <2>3, UnfoldText
  <2>6. TextOf(w, l[n]) = w[x]
    BY <1>6, <2>2
  <2> QED BY <2>4, <2>5, <2>6
<1>7. depth \in P
  <2>1. \A n \in Nat : n \in P
    <3> HIDE DEF P
    <3> QED BY <1>5, <1>6, Induction
  <2> QED BY <2>1
<1>8. PICK p \in Seq(TextPieces) : p = l[depth]
  BY <1>1 DEF Levels
<1>9. Spellings(w, p) = [i \in 1..Len(p) |-> p[i][2]]
  <2>1. \A i \in 1..Len(p) : Spelt(w, p[i]) = p[i][2]
    BY <1>8, ElementOfSeq DEF Spelt
  <2> QED BY <2>1 DEF Spellings
<1>10. dump(x, depth) = FlattenSeq([i \in 1..Len(p) |-> p[i][2]])
  BY <1>1, <1>8 DEF Levels
<1> QED BY <1>7, <1>8, <1>9, <1>10 DEF TextOf

\* As many levels as the value is deep, and one, leave text only.
LEMMA DumpType ==
  ASSUME NEW S, NEW r, Nested(S, r), NEW depth \in Nat, NEW x \in S, r[x] < depth
  PROVE  dump(x, depth) \in Texts
<1>1. PICK w : Writes(S, w)
  BY WritesExists
<1>2. w[x] \in Texts
  BY <1>1 DEF Writes
<1>3. dump(x, depth) = w[x]
  BY <1>1, DumpWrites
<1> QED BY <1>2, <1>3

-----------------------------------------------------------------------------
(* What arrays and objects are written as.                                    *)

\* Associativity behind a name, for two joins and for three.
Associates(a, b, c) == (a \o b) \o c = a \o (b \o c)

LEMMA TextsAssociate ==
  ASSUME NEW a \in Texts, NEW b \in Texts, NEW c \in Texts
  PROVE  Associates(a, b, c)
  BY JoinedTwice DEF Associates

AssociatesThrice(a, b, c, d) == ((a \o b) \o c) \o d = a \o (b \o (c \o d))

LEMMA JoinedThrice ==
  ASSUME NEW a \in Texts, NEW b \in Texts, NEW c \in Texts, NEW d \in Texts
  PROVE  AssociatesThrice(a, b, c, d)
<1>1. a \o b \in Texts /\ c \o d \in Texts
  BY Joined
<1>2. Associates(a \o b, c, d) /\ Associates(a, b, c \o d)
  BY <1>1, TextsAssociate
<1> QED BY <1>2 DEF Associates, AssociatesThrice

\* A pair is its elements joined.
LEMMA Pair ==
  ASSUME NEW U, NEW a \in U, NEW b \in U
  PROVE  <<a, b>> = <<a>> \o <<b>>
<1>1. PICK x \in Seq(U) : x = <<a>> /\ Len(x) = 1 /\ x[1] = a
  BY Single
<1>2. PICK y \in Seq(U) : y = <<b>> /\ Len(y) = 1 /\ y[1] = b
  BY Single
<1>3. PICK z \in Seq(U) : z = x \o y
  BY ConcatProperties
<1>4. Len(z) = 2 /\ z[1] = a /\ z[2] = b
  <2>1. /\ Len(z) = Len(x) + Len(y)
        /\ \A i \in 1..(Len(x) + Len(y)) : z[i] = IF i <= Len(x) THEN x[i] ELSE y[i - Len(x)]
    BY <1>3, ConcatProperties
  <2>2. Len(z) = 2 /\ \A i \in 1..2 : z[i] = IF i <= 1 THEN x[i] ELSE y[i - 1]
    BY <1>1, <1>2, <2>1
  <2> QED BY <1>1, <1>2, <2>2
<1>5. PICK u \in Seq(U) : u = <<a, b>> /\ Len(u) = 2 /\ u[1] = a /\ u[2] = b
  <2>1. <<a, b>> \in Seq(U)
    OBVIOUS
  <2>2. Len(<<a, b>>) = 2 /\ <<a, b>>[1] = a /\ <<a, b>>[2] = b
    OBVIOUS
  <2> QED BY <2>1, <2>2
<1>6. u = z
  <2>1. \A i \in 1..Len(u) : u[i] = z[i]
    BY <1>4, <1>5
  <2> QED BY <1>4, <1>5, <2>1, SeqEqual
<1> QED BY <1>1, <1>2, <1>3, <1>5, <1>6

\* The text of elements between brackets, each led by a text.
Brackets(w, o, c, n, lead, el) ==
  /\ [i \in 1..n |-> lead[i] \o w[el[i]]] \in Seq(Texts)
  /\ Len([i \in 1..n |-> lead[i] \o w[el[i]]]) = n
  /\ TextOf(w, (<<Text(o)>> \o FlattenSeq([i \in 1..n |-> <<Text(lead[i]), el[i]>>])) \o <<Text(c)>>)
       = o \o (FlattenSeq([i \in 1..n |-> lead[i] \o w[el[i]]]) \o c)

\* It holds of any elements.
LEMMA BracketsText ==
  ASSUME NEW S, NEW w \in [S -> Texts], NEW o \in Texts, NEW c \in Texts, NEW n \in Nat,
         NEW lead \in [1..n -> Texts], NEW el \in [1..n -> S],
         \A x \in S : x \notin TextPieces
  PROVE  Brackets(w, o, c, n, lead, el)
<1> DEFINE q == [i \in 1..n |-> <<Text(lead[i]), el[i]>>]
           t == [i \in 1..n |-> lead[i] \o w[el[i]]]
           T == S \cup TextPieces
<1>1. ASSUME NEW s \in Texts
      PROVE  Text(s) \in T /\ <<Text(s)>> \in Seq(T) /\ TextOf(w, <<Text(s)>>) = s
  <2>1. Text(s) \in TextPieces /\ Text(s)[2] = s
    BY DEF TextPieces, Text
  <2>2. Text(s) \in S \cup TextPieces
    BY <2>1
  <2>3. TextOf(w, <<Text(s)>>) = Spelt(w, Text(s))
    BY <2>2, TextOfOne
  <2>4. Spelt(w, Text(s)) = s
    BY <2>1 DEF Spelt
  <2> QED BY <2>2, <2>3, <2>4, Single
<1>2. ASSUME NEW i \in 1..n
      PROVE  q[i] \in Seq(T) /\ t[i] = TextOf(w, q[i]) /\ t[i] \in Texts
  <2>1. PICK a, b : a = Text(lead[i]) /\ b = el[i]
    OBVIOUS
  <2>2. a \in T /\ b \in T /\ b \in S /\ lead[i] \in Texts /\ w[b] \in Texts
    BY <1>1, <2>1
  <2>3. <<a>> \in Seq(T) /\ <<b>> \in Seq(T)
    BY <2>2, Single
  <2>4. <<a, b>> = <<a>> \o <<b>>
    <3> HIDE DEF q, t, T
    <3> QED BY <2>2, Pair
  <2>5. TextOf(w, <<a>> \o <<b>>) = TextOf(w, <<a>>) \o TextOf(w, <<b>>)
    <3>1. <<a>> \in PiecesOf(S) /\ <<b>> \in PiecesOf(S)
      BY <2>3 DEF T, PiecesOf
    <3> HIDE DEF q, t, T
    <3>2. Splits(w, <<a>>, <<b>>)
      BY <3>1, TextOfSplits
    <3> QED BY <3>2 DEF Splits
  <2>6. TextOf(w, <<a>>) = lead[i]
    BY <1>1, <2>1, <2>2
  <2>7. TextOf(w, <<b>>) = w[b]
    <3>1. TextOf(w, <<b>>) = Spelt(w, b)
      BY <2>2, TextOfOne
    <3> QED BY <2>2, <3>1 DEF Spelt
  <2>8. <<a, b>> \in Seq(T)
    BY <2>3, <2>4, ConcatProperties
  <2>9. lead[i] \o w[b] \in Texts
    BY <2>2, Joined
  <2>10. q[i] = <<a, b>> /\ t[i] = lead[i] \o w[b]
    BY <2>1
  <2> HIDE DEF q, t, T
  <2> QED BY <2>4, <2>5, <2>6, <2>7, <2>8, <2>9, <2>10
<1>3. q \in Seq(Seq(T)) /\ Len(q) = n
  <2>1. q \in [1..n -> Seq(T)]
    <3>1. \A i \in 1..n : q[i] \in Seq(T)
      <4> HIDE DEF q, T
      <4> QED BY <1>2
    <3> HIDE DEF T
    <3> QED BY <3>1
  <2> HIDE DEF q, T
  <2> QED BY <2>1, IsSeq
<1>4. t \in Seq(Texts) /\ Len(t) = n
  <2>1. t \in [1..n -> Texts]
    <3>1. \A i \in 1..n : t[i] \in Texts
      <4> HIDE DEF t
      <4> QED BY <1>2
    <3> QED BY <3>1
  <2> HIDE DEF t
  <2> QED BY <2>1, IsSeq
<1>5. PICK m : m = FlattenSeq(q)
  OBVIOUS
<1>6. m \in Seq(T)
  <2> HIDE DEF q, T
  <2> QED BY <1>3, <1>5, FlattenSeqType
<1>7. TextOf(w, m) = FlattenSeq(t)
  <2>1. q \in Seq(Seq(S \cup TextPieces)) /\ \A i \in 1..Len(q) : t[i] = TextOf(w, q[i])
    <3> HIDE DEF q, t
    <3> QED BY <1>2, <1>3
  <2>2. Len(t) = Len(q)
    BY <1>3, <1>4
  <2>3. PICK y \in Seq(Seq(S \cup TextPieces)) : y = q
    <3> HIDE DEF q
    <3> QED BY <2>1
  <2>4. PICK z \in Seq(Texts) : z = t
    <3> HIDE DEF t
    <3> QED BY <1>4
  <2>5. Len(z) = Len(y) /\ \A i \in 1..Len(y) : z[i] = TextOf(w, y[i])
    <3> HIDE DEF q, t
    <3> QED BY <2>1, <2>2, <2>3, <2>4
  <2> HIDE DEF q, t, T
  <2>6. Flattens(w, y, z)
    BY <2>5, TextOfFlat
  <2> QED BY <1>5, <2>3, <2>4, <2>6 DEF Flattens
<1>8. FlattenSeq(t) \in Texts
  <2> HIDE DEF t
  <2> QED BY <1>4, FlattenSeqType DEF Texts
<1>9. PICK a \in Seq(T), b \in Seq(T) :
         a = <<Text(o)>> /\ b = <<Text(c)>> /\ TextOf(w, a) = o /\ TextOf(w, b) = c
  <2> HIDE DEF T
  <2> QED BY <1>1
<1>10. TextOf(w, (a \o m) \o b) = (o \o FlattenSeq(t)) \o c
  <2> HIDE DEF t
  <2>1. a \in PiecesOf(S) /\ b \in PiecesOf(S) /\ m \in PiecesOf(S) /\ a \o m \in PiecesOf(S)
    BY <1>6, ConcatProperties DEF PiecesOf, T
  <2> HIDE DEF q, T
  <2>2. TextOf(w, (a \o m) \o b) = TextOf(w, a \o m) \o TextOf(w, b)
    <3>1. Splits(w, a \o m, b)
      BY <2>1, TextOfSplits
    <3> QED BY <3>1 DEF Splits
  <2>3. TextOf(w, a \o m) = TextOf(w, a) \o TextOf(w, m)
    <3>1. Splits(w, a, m)
      BY <2>1, TextOfSplits
    <3> QED BY <3>1 DEF Splits
  <2> QED BY <1>7, <1>9, <2>2, <2>3
<1>11. (o \o FlattenSeq(t)) \o c = o \o (FlattenSeq(t) \o c)
  <2> HIDE DEF t
  <2> QED BY <1>8, JoinedTwice
<1> QED BY <1>4, <1>5, <1>9, <1>10, <1>11 DEF Brackets

\* An array or an object over S.
Objects(S) == UNION {[D -> S] : D \in SUBSET Texts}

\* A value that is one of them.
Composed(x, S) == \/ \E s \in Seq(S) : x = <<"arr", s>>
                  \/ \E f \in Objects(S) : x = <<"obj", f>>

\* The values in a value, and how it begins, goes on and ends.
Elems(x) == IF x[1] = "arr" THEN x[2]
            ELSE [i \in 1..Len(KeysOf(x[2])) |-> x[2][KeysOf(x[2])[i]]]

\* What is written in front of an element, around the elements, and from the element
\* behind the first k on.
Lead(x, i) == IF x[1] = "arr" THEN Comma(i)
              ELSE (Comma(i) \o quoted(KeysOf(x[2])[i])) \o <<":">>
Opens(x) == IF x[1] = "arr" THEN "[" ELSE "{"
Closes(x) == IF x[1] = "arr" THEN "]" ELSE "}"
Rest(w, x, k) == After([i \in 1..Len(Elems(x)) |-> Lead(x, i) \o w[Elems(x)[i]]], k) \o <<Closes(x)>>

\* The elements of a composite value and the text it is written as.
LEMMA CompositeFacts ==
  ASSUME NEW S, NEW x, Composed(x, S)
  PROVE  /\ Elems(x) \in Seq(S) /\ Len(Elems(x)) \in Nat
         /\ \A i \in 1..Len(Elems(x)) : Lead(x, i) \in Texts /\ Elems(x)[i] \in S
         /\ x[1] # "arr" => /\ Len(KeysOf(x[2])) = Len(Elems(x))
                            /\ \A i \in 1..Len(Elems(x)) : /\ KeysOf(x[2])[i] \in DOMAIN x[2]
                                                           /\ KeysOf(x[2])[i] \in Texts
                                                           /\ Elems(x)[i] = x[2][KeysOf(x[2])[i]]
         /\ Pieces(x) = (<<Text(<<Opens(x)>>)>>
                           \o FlattenSeq([i \in 1..Len(Elems(x)) |-> <<Text(Lead(x, i)), Elems(x)[i]>>]))
                           \o <<Text(<<Closes(x)>>)>>
<1>1. ASSUME NEW s \in Seq(S), x = <<"arr", s>>
      PROVE  /\ Elems(x) \in Seq(S) /\ Len(Elems(x)) \in Nat
             /\ \A i \in 1..Len(Elems(x)) : Lead(x, i) \in Texts /\ Elems(x)[i] \in S
             /\ x[1] = "arr"
             /\ Pieces(x) = (<<Text(<<Opens(x)>>)>>
                           \o FlattenSeq([i \in 1..Len(Elems(x)) |-> <<Text(Lead(x, i)), Elems(x)[i]>>]))
                           \o <<Text(<<Closes(x)>>)>>
  <2>1. Elems(x) = s /\ Opens(x) = "[" /\ Closes(x) = "]" /\ \A i : Lead(x, i) = Comma(i)
    BY <1>1 DEF Elems, Opens, Closes, Lead
  <2>2. Len(s) \in Nat /\ DOMAIN s = 1..Len(s) /\ \A i \in 1..Len(s) : s[i] \in S
    BY LenProperties, ElementOfSeq
  <2>3. Pieces(x) = (<<Text(<<"[">>)>> \o FlattenSeq([i \in 1..Len(s) |-> <<Text(Comma(i)), s[i]>>]))
                       \o <<Text(<<"]">>)>>
    BY <1>1, <2>2 DEF Pieces
  <2> QED BY <1>1, <2>1, <2>2, <2>3, CommaType
<1>2. ASSUME NEW D \in SUBSET Texts, NEW f \in [D -> S], x = <<"obj", f>>
      PROVE  /\ Elems(x) \in Seq(S) /\ Len(Elems(x)) \in Nat
             /\ \A i \in 1..Len(Elems(x)) : Lead(x, i) \in Texts /\ Elems(x)[i] \in S
             /\ Len(KeysOf(x[2])) = Len(Elems(x))
             /\ \A i \in 1..Len(Elems(x)) : /\ KeysOf(x[2])[i] \in DOMAIN x[2]
                                            /\ KeysOf(x[2])[i] \in Texts
                                            /\ Elems(x)[i] = x[2][KeysOf(x[2])[i]]
             /\ Pieces(x) = (<<Text(<<Opens(x)>>)>>
                           \o FlattenSeq([i \in 1..Len(Elems(x)) |-> <<Text(Lead(x, i)), Elems(x)[i]>>]))
                           \o <<Text(<<Closes(x)>>)>>
  <2>1. PICK keys \in Seq(D) : keys = KeysOf(f)
    BY KeysOfType
  <2>2. PICK n \in Nat : n = Len(keys) /\ DOMAIN keys = 1..n /\ \A i \in 1..n : keys[i] \in D
    BY <2>1, LenProperties, ElementOfSeq
  <2>3. x[1] = "obj" /\ x[2] = f /\ "obj" # "arr"
    BY <1>2
  <2>4. /\ Elems(x) = [i \in 1..n |-> f[keys[i]]] /\ Opens(x) = "{" /\ Closes(x) = "}"
        /\ \A i : Lead(x, i) = (Comma(i) \o quoted(keys[i])) \o <<":">>
    BY <2>1, <2>2, <2>3 DEF Elems, Opens, Closes, Lead
  <2>5. PICK e : e = Elems(x)
    OBVIOUS
  <2>6. e \in [1..n -> S]
    BY <2>2, <2>4, <2>5
  <2>7. e \in Seq(S) /\ Len(e) = n
    BY <2>6, IsSeq
  <2>8. ASSUME NEW i \in 1..n
        PROVE  (Comma(i) \o quoted(keys[i])) \o <<":">> \in Texts /\ e[i] \in S /\ e[i] = f[keys[i]]
    <3>1. keys[i] \in Texts
      BY <2>2
    <3>2. Comma(i) \o quoted(keys[i]) \in Texts
      BY <3>1, CommaType, QuotedType, Joined
    <3>3. <<":">> \in Texts
      BY LiteralTexts DEF Literals
    <3>4. (Comma(i) \o quoted(keys[i])) \o <<":">> \in Texts
      BY <3>2, <3>3, Joined
    <3> QED BY <2>4, <2>5, <2>6, <3>4
  <2>9. Pieces(x) = (<<Text(<<"{">>)>>
                       \o FlattenSeq([i \in 1..n |->
                            <<Text((Comma(i) \o quoted(keys[i])) \o <<":">>), f[keys[i]]>>]))
                       \o <<Text(<<"}">>)>>
    <3>1. KeysOf(f) = keys
      BY <2>1
    <3> QED BY <1>2, <2>2, <3>1 DEF Pieces
  <2>10. [i \in 1..n |-> <<Text((Comma(i) \o quoted(keys[i])) \o <<":">>), f[keys[i]]>>]
           = [i \in 1..n |-> <<Text(Lead(x, i)), e[i]>>]
    BY <2>4, <2>8
  <2>11. /\ Len(e) = n
         /\ \A i \in 1..n : /\ Lead(x, i) \in Texts /\ e[i] \in S /\ KeysOf(x[2])[i] \in DOMAIN x[2]
                            /\ KeysOf(x[2])[i] \in Texts /\ e[i] = x[2][KeysOf(x[2])[i]]
    BY <2>1, <2>2, <2>3, <2>4, <2>7, <2>8
  <2>12. Pieces(x) = (<<Text(<<Opens(x)>>)>>
                           \o FlattenSeq([i \in 1..n |-> <<Text(Lead(x, i)), e[i]>>]))
                           \o <<Text(<<Closes(x)>>)>>
    BY <2>4, <2>9, <2>10
  <2> QED BY <2>1, <2>2, <2>3, <2>5, <2>7, <2>11, <2>12
<1>3. CASE \E s \in Seq(S) : x = <<"arr", s>>
  BY <1>1, <1>3
<1>4. CASE \E f \in Objects(S) : x = <<"obj", f>>
  <2>1. PICK D \in SUBSET Texts : \E f \in [D -> S] : x = <<"obj", f>>
    BY <1>4 DEF Objects
  <2> QED BY <1>2, <2>1
<1> QED BY <1>3, <1>4 DEF Composed

\* How an array or an object begins, and what is left of it behind its elements.
LEMMA RestFacts ==
  ASSUME NEW S, NEW r, Nested(S, r), NEW w, Writes(S, w), NEW x \in S, Composed(x, S)
  PROVE  /\ w[x] = <<Opens(x)>> \o Rest(w, x, 0)
         /\ Rest(w, x, Len(Elems(x))) = <<Closes(x)>>
         /\ \A k \in 0..Len(Elems(x)) : Rest(w, x, k) \in Texts
         /\ \A k \in 0..(Len(Elems(x)) - 1) :
               Rest(w, x, k) = Lead(x, k + 1) \o (w[Elems(x)[k + 1]] \o Rest(w, x, k + 1))
<1>1. w \in [S -> Texts] /\ w[x] = TextOf(w, Pieces(x))
  BY DEF Writes
<1>2. PICK e, n : e = Elems(x) /\ n \in Nat /\ n = Len(e) /\ e \in Seq(S)
  <2>1. Elems(x) \in Seq(S) /\ Len(Elems(x)) \in Nat
    BY CompositeFacts
  <2>2. PICK e \in Seq(S) : e = Elems(x)
    BY <2>1
  <2>3. PICK n \in Nat : n = Len(e)
    BY <2>1, <2>2
  <2> QED BY <2>2, <2>3
<1>3. /\ \A i \in 1..n : Lead(x, i) \in Texts /\ e[i] \in S
      /\ Pieces(x) = (<<Text(<<Opens(x)>>)>>
                        \o FlattenSeq([i \in 1..n |-> <<Text(Lead(x, i)), e[i]>>]))
                        \o <<Text(<<Closes(x)>>)>>
  BY <1>2, CompositeFacts
<1> DEFINE lead == [i \in 1..n |-> Lead(x, i)]
           el == [i \in 1..n |-> e[i]]
           t == [i \in 1..n |-> Lead(x, i) \o w[e[i]]]
<1>4. lead \in [1..n -> Texts] /\ el \in [1..n -> S]
  BY <1>3
<1>5. PICK o \in Texts, c \in Texts : o = <<Opens(x)>> /\ c = <<Closes(x)>>
  <2>1. \A y \in {"[", "]", "{", "}"} : <<y>> \in Texts
    BY LiteralTexts DEF Literals
  <2>2. Opens(x) \in {"[", "]", "{", "}"} /\ Closes(x) \in {"[", "]", "{", "}"}
    BY DEF Opens, Closes
  <2> QED BY <2>1, <2>2
<1>6. \A y \in S : y \notin TextPieces
  BY NoValueIsText DEF TextPieces
<1>7. /\ [i \in 1..n |-> lead[i] \o w[el[i]]] \in Seq(Texts)
      /\ Len([i \in 1..n |-> lead[i] \o w[el[i]]]) = n
      /\ TextOf(w, (<<Text(o)>> \o FlattenSeq([i \in 1..n |-> <<Text(lead[i]), el[i]>>])) \o <<Text(c)>>)
           = o \o (FlattenSeq([i \in 1..n |-> lead[i] \o w[el[i]]]) \o c)
  <2> HIDE DEF lead, el
  <2>1. Brackets(w, o, c, n, lead, el)
    BY <1>1, <1>2, <1>4, <1>5, <1>6, BracketsText
  <2> QED BY <2>1 DEF Brackets
<1>8. /\ [i \in 1..n |-> lead[i] \o w[el[i]]] = t
      /\ [i \in 1..n |-> <<Text(lead[i]), el[i]>>] = [i \in 1..n |-> <<Text(Lead(x, i)), e[i]>>]
  OBVIOUS
<1> HIDE DEF lead, el
<1>9. t \in Seq(Texts) /\ Len(t) = n /\ w[x] = o \o (FlattenSeq(t) \o c)
  BY <1>1, <1>3, <1>5, <1>7, <1>8
<1>10. \A k \in 1..n : t[k] = Lead(x, k) \o w[e[k]] /\ Lead(x, k) \in Texts /\ w[e[k]] \in Texts
  BY <1>1, <1>3
<1>11. \A k : Rest(w, x, k) = After(t, k) \o c
  BY <1>2, <1>5 DEF Rest
<1> HIDE DEF t
<1>12. ASSUME NEW k \in 0..n
       PROVE  /\ After(t, k) \in Texts
              /\ k = 0 => After(t, k) = FlattenSeq(t)
              /\ k = n => After(t, k) = <<>>
              /\ k # n => After(t, k) = t[k + 1] \o After(t, k + 1)
  <2>1. PICK y \in Seq(Seq(Character)) : y = t
    BY <1>9 DEF Texts
  <2>2. k \in 0..Len(y)
    BY <1>9, <2>1
  <2>3. /\ After(y, k) \in Seq(Character)
        /\ k = 0 => After(y, k) = FlattenSeq(y)
        /\ k = Len(y) => After(y, k) = <<>>
        /\ k # Len(y) => After(y, k) = y[k + 1] \o After(y, k + 1)
    BY <2>2, AfterFacts
  <2> QED BY <1>9, <2>1, <2>3 DEF Texts
<1>13. w[x] = <<Opens(x)>> \o Rest(w, x, 0)
  <2>1. 0 \in 0..n
    BY <1>2
  <2> QED BY <1>5, <1>9, <1>11, <1>12, <2>1
<1>14. Rest(w, x, n) = <<Closes(x)>>
  <2>1. n \in 0..n
    BY <1>2
  <2>2. <<>> \o c = c
    BY ConcatEmptySeq DEF Texts
  <2> QED BY <1>5, <1>11, <1>12, <2>1, <2>2
<1>15. ASSUME NEW k \in 0..n PROVE Rest(w, x, k) \in Texts
  BY <1>5, <1>11, <1>12, Joined, ZenonT(40)
<1>16. ASSUME NEW k \in 0..(n - 1)
       PROVE  Rest(w, x, k) = Lead(x, k + 1) \o (w[e[k + 1]] \o Rest(w, x, k + 1))
  <2>1. k \in 0..n /\ k # n /\ k + 1 \in 0..n /\ k + 1 \in 1..n
    BY <1>2
  <2>2. PICK a \in Texts, b \in Texts, d \in Texts :
           a = Lead(x, k + 1) /\ b = w[e[k + 1]] /\ d = After(t, k + 1)
    BY <1>10, <1>12, <2>1
  <2>3. After(t, k) = (a \o b) \o d
    BY <1>10, <1>12, <2>1, <2>2
  <2>4. ((a \o b) \o d) \o c = a \o (b \o (d \o c))
    <3>1. AssociatesThrice(a, b, d, c)
      BY <1>5, JoinedThrice
    <3> QED BY <3>1 DEF AssociatesThrice
  <2> QED BY <1>11, <2>2, <2>3, <2>4
<1> QED BY <1>2, <1>13, <1>14, <1>15, <1>16

-----------------------------------------------------------------------------
(* Floats come back: Keep, the places of characters and the zeros around the   *)
(* digits.                                                                     *)

\* Each character of s is in T.
AllIn(s, T) == \A i \in 1..Len(s) : s[i] \in T

\* The characters of two texts put together, m and n of them.
IsJoin(u, a, b, m, n) ==
  /\ u \in Texts /\ Len(u) = m + n
  /\ \A i \in 1..m : u[i] = a[i]
  /\ \A j \in 1..n : u[m + j] = b[j]
  /\ \A i \in 1..(m + n) : i \in 1..m \/ \E j \in 1..n : i = m + j

\* The characters of joined texts.
LEMMA JoinedFacts ==
  ASSUME NEW a \in Texts, NEW b \in Texts
  PROVE  IsJoin(a \o b, a, b, Len(a), Len(b))
<1>1. PICK m \in Nat, n \in Nat : m = Len(a) /\ n = Len(b)
  BY LenProperties DEF Texts
<1>2. PICK u \in Texts : u = a \o b
  BY Joined
<1>3. Len(u) = m + n /\ \A i \in 1..(m + n) : u[i] = IF i <= m THEN a[i] ELSE b[i - m]
  <2>1. /\ Len(u) = Len(a) + Len(b)
        /\ \A i \in 1..(Len(a) + Len(b)) : u[i] = IF i <= Len(a) THEN a[i] ELSE b[i - Len(a)]
    BY <1>2, ConcatProperties DEF Texts
  <2> QED BY <1>1, <2>1
<1>4. \A i \in 1..m : u[i] = a[i]
  <2>1. \A i \in 1..m : i \in 1..(m + n) /\ i <= m
    OBVIOUS
  <2> QED BY <1>3, <2>1
<1>5. ASSUME NEW i \in 1..n PROVE u[m + i] = b[i]
  <2>1. m + i \in 1..(m + n) /\ ~(m + i <= m) /\ (m + i) - m = i
    OBVIOUS
  <2> QED BY <1>3, <2>1
<1>6. ASSUME NEW i \in 1..(m + n) PROVE i \in 1..m \/ \E j \in 1..n : i = m + j
  <2>1. i <= m => i \in 1..m
    OBVIOUS
  <2>2. ~(i <= m) => i - m \in 1..n /\ i = m + (i - m)
    OBVIOUS
  <2> QED BY <2>1, <2>2
<1>7. IsJoin(u, a, b, m, n)
  BY <1>3, <1>4, <1>5, <1>6 DEF IsJoin
<1> QED BY <1>1, <1>2, <1>7

\* AllIn holds of joined texts.
LEMMA AllInJoined ==
  ASSUME NEW a \in Texts, NEW b \in Texts, NEW T, AllIn(a, T), AllIn(b, T)
  PROVE  AllIn(a \o b, T)
<1>1. PICK m \in Nat, n \in Nat, u \in Texts : /\ m = Len(a) /\ n = Len(b) /\ u = a \o b
  BY LenProperties, Joined DEF Texts
<1>2. IsJoin(u, a, b, m, n)
  BY <1>1, JoinedFacts
<1>3. /\ Len(u) = m + n
      /\ \A i \in 1..m : u[i] = a[i]
      /\ \A j \in 1..n : u[m + j] = b[j]
      /\ \A i \in 1..(m + n) : i \in 1..m \/ \E j \in 1..n : i = m + j
  BY <1>2 DEF IsJoin
<1>4. \A i \in 1..m : a[i] \in T
  BY <1>1 DEF AllIn
<1>5. \A i \in 1..n : b[i] \in T
  BY <1>1 DEF AllIn
<1>6. ASSUME NEW i \in 1..(m + n) PROVE u[i] \in T
  <2>1. CASE i \in 1..m
    BY <1>3, <1>4, <2>1
  <2>2. ASSUME NEW j \in 1..n, i = m + j PROVE u[i] \in T
    BY <1>3, <1>5, <2>2
  <2> QED BY <1>3, <2>1, <2>2
<1>7. AllIn(u, T)
  BY <1>3, <1>6 DEF AllIn
<1> QED BY <1>1, <1>7

\* A text is its first character and the rest.
LEMMA HeadTailJoined ==
  ASSUME NEW s \in Texts, s # <<>>
  PROVE  /\ s[1] \in Character /\ Tail(s) \in Texts /\ s = <<s[1]>> \o Tail(s)
         /\ Len(Tail(s)) = Len(s) - 1 /\ \A i \in 1..Len(Tail(s)) : Tail(s)[i] = s[i + 1]
<1>1. PICK n \in Nat \ {0} : n = Len(s)
  BY EmptySeq DEF Texts
<1>2. 1 \in 1..n /\ n \in 1..n
  BY <1>1
<1>3. s[1] \in Character
  BY <1>1, <1>2, ElementOfSeq DEF Texts
<1>4. SubSeq(s, 1, n) = <<s[1]>> \o SubSeq(s, 1 + 1, n)
  BY <1>1, <1>2, SubSeqRecursiveFirst DEF Texts
<1>5. SubSeq(s, 1, n) = s
  BY <1>1, SubSeqFull DEF Texts
<1>6. Tail(s) = SubSeq(s, 2, n)
  BY <1>1, TailIsSubSeq DEF Texts
<1>7. Tail(s) \in Texts /\ Len(Tail(s)) = Len(s) - 1 /\ \A i \in 1..Len(Tail(s)) : Tail(s)[i] = s[i + 1]
  BY HeadTailProperties DEF Texts
<1>8. 1 + 1 = 2
  OBVIOUS
<1> QED BY <1>3, <1>4, <1>5, <1>6, <1>7, <1>8

\* Keep joins what is kept of each character.
Kept(s, T) == [i \in 1..Len(s) |-> IF s[i] \in T THEN <<s[i]>> ELSE <<>>]

LEMMA KeptType ==
  ASSUME NEW s \in Texts, NEW T
  PROVE  Kept(s, T) \in Seq(Texts) /\ Len(Kept(s, T)) = Len(s) /\ Keep(s, T) = FlattenSeq(Kept(s, T))
<1>1. PICK n \in Nat : n = Len(s) /\ DOMAIN s = 1..n
  BY LenProperties DEF Texts
<1>2. PICK q : q = Kept(s, T)
  OBVIOUS
<1>3. q = [i \in 1..n |-> IF s[i] \in T THEN <<s[i]>> ELSE <<>>]
  BY <1>1, <1>2 DEF Kept
<1>4. ASSUME NEW i \in 1..n PROVE q[i] \in Texts
  <2>1. s[i] \in Character
    BY <1>1, ElementOfSeq DEF Texts
  <2> QED BY <1>3, <2>1, OneCharacter, NoText
<1>5. q \in Seq(Texts) /\ Len(q) = n
  BY <1>3, <1>4, IsSeq
<1>6. Keep(s, T) = FlattenSeq(q)
  BY <1>1, <1>3 DEF Keep
<1> QED BY <1>1, <1>2, <1>5, <1>6

\* What is kept of joined texts.
KeepJoins(a, b, T) == Keep(a \o b, T) = Keep(a, T) \o Keep(b, T)

LEMMA KeepJoined ==
  ASSUME NEW a \in Texts, NEW b \in Texts, NEW T
  PROVE  KeepJoins(a, b, T)
<1>1. PICK m \in Nat, n \in Nat, u \in Texts : m = Len(a) /\ n = Len(b) /\ u = a \o b
  BY LenProperties, Joined DEF Texts
<1>2. IsJoin(u, a, b, m, n)
  BY <1>1, JoinedFacts
<1>3. /\ Len(u) = m + n
      /\ \A i \in 1..m : u[i] = a[i]
      /\ \A j \in 1..n : u[m + j] = b[j]
      /\ \A i \in 1..(m + n) : i \in 1..m \/ \E j \in 1..n : i = m + j
  BY <1>2 DEF IsJoin
<1>4. PICK x \in Seq(Texts) : x = Kept(a, T) /\ Len(x) = m /\ Keep(a, T) = FlattenSeq(x)
  BY <1>1, KeptType
<1>5. PICK y \in Seq(Texts) : y = Kept(b, T) /\ Len(y) = n /\ Keep(b, T) = FlattenSeq(y)
  BY <1>1, KeptType
<1>6. PICK z \in Seq(Texts) : z = Kept(u, T) /\ Len(z) = m + n /\ Keep(u, T) = FlattenSeq(z)
  BY <1>3, KeptType
<1>7. PICK w \in Seq(Texts) : w = x \o y
  BY ConcatProperties
<1>8. Len(w) = m + n /\ \A i \in 1..(m + n) : w[i] = IF i <= m THEN x[i] ELSE y[i - m]
  <2>1. /\ Len(w) = Len(x) + Len(y)
        /\ \A i \in 1..(Len(x) + Len(y)) : w[i] = IF i <= Len(x) THEN x[i] ELSE y[i - Len(x)]
    BY <1>7, ConcatProperties
  <2> QED BY <1>4, <1>5, <2>1
<1>9. ASSUME NEW i \in 1..(m + n) PROVE z[i] = w[i]
  <2>1. z[i] = IF u[i] \in T THEN <<u[i]>> ELSE <<>>
    BY <1>3, <1>6 DEF Kept
  <2>2. CASE i \in 1..m
    <3>1. i <= m
      BY <2>2
    <3>2. x[i] = IF a[i] \in T THEN <<a[i]>> ELSE <<>>
      BY <1>1, <1>4, <2>2 DEF Kept
    <3> QED BY <1>3, <1>8, <2>1, <2>2, <3>1, <3>2
  <2>3. ASSUME NEW j \in 1..n, i = m + j PROVE z[i] = w[i]
    <3>1. ~(i <= m) /\ i - m = j
      BY <2>3
    <3>2. y[j] = IF b[j] \in T THEN <<b[j]>> ELSE <<>>
      BY <1>1, <1>5 DEF Kept
    <3>3. u[i] = b[j]
      BY <1>3, <2>3
    <3> QED BY <1>8, <2>1, <3>1, <3>2, <3>3
  <2> QED BY <1>3, <2>2, <2>3
<1>10. z = w
  BY <1>6, <1>8, <1>9, SeqEqual
<1>11. FlattenSeq(w) = FlattenSeq(x) \o FlattenSeq(y)
  BY <1>7, FlattenSeqJoined DEF Texts
<1> QED BY <1>1, <1>4, <1>5, <1>6, <1>10, <1>11 DEF KeepJoins

\* Keep leaves a text of T alone, and takes all of a text without it.
LEMMA KeepAll ==
  ASSUME NEW s \in Texts, NEW T, AllIn(s, T)
  PROVE  Keep(s, T) = s
<1>1. PICK n \in Nat : n = Len(s)
  BY LenProperties DEF Texts
<1>2. PICK x \in Seq(Texts) : x = Kept(s, T) /\ Len(x) = n /\ Keep(s, T) = FlattenSeq(x)
  BY <1>1, KeptType
<1> DEFINE g == [i \in 0..n |-> SubSeq(s, 1, i)]
<1>3. ASSUME NEW i \in 0..n PROVE g[i] \in Texts
  <2>1. 1 \in 1..(Len(s) + 1) /\ i \in (1 - 1)..Len(s)
    BY <1>1
  <2> QED BY <2>1, Parts
<1>4. g[0] = <<>> /\ g[n] = s
  <2>1. SubSeq(s, 1, 0) = <<>>
    BY SubSeqEmpty
  <2>2. SubSeq(s, 1, n) = s
    BY <1>1, SubSeqFull DEF Texts
  <2> QED BY <2>1, <2>2
<1>5. ASSUME NEW i \in 1..n PROVE g[i] = g[i - 1] \o x[i]
  <2>1. x[i] = <<s[i]>>
    BY <1>1, <1>2 DEF Kept, AllIn
  <2>2. PICK j \in Nat : j = i - 1 /\ j + 1 = i /\ j < Len(s) /\ j \in 0..n
    <3>1. i - 1 \in Nat /\ (i - 1) + 1 = i /\ i - 1 < Len(s) /\ i - 1 \in 0..n
      BY <1>1
    <3> QED BY <3>1
  <2>3. SubSeq(s, 1, j + 1) = SubSeq(s, 1, j) \o <<s[j + 1]>>
    BY <2>2, Prefix DEF Texts
  <2>4. g[i] = SubSeq(s, 1, i) /\ g[i - 1] = SubSeq(s, 1, j)
    BY <2>2
  <2> QED BY <2>1, <2>2, <2>3, <2>4
<1>6. g \in [0..n -> Texts]
  BY <1>3
<1> HIDE DEF g
<1>7. FlattenSeq(x) = g[n]
  <2>1. x \in Seq(Seq(Character)) /\ g \in [0..n -> Seq(Character)] /\ Len(x) = n
    BY <1>2, <1>6 DEF Texts
  <2>2. \A i \in 1..n : g[i] = g[i - 1] \o x[i]
    BY <1>5
  <2> QED BY <1>4, <2>1, <2>2, FlattenSeqIs
<1> QED BY <1>2, <1>4, <1>7

LEMMA KeepNone ==
  ASSUME NEW s \in Texts, NEW T, \A i \in 1..Len(s) : s[i] \notin T
  PROVE  Keep(s, T) = <<>>
<1>1. PICK n \in Nat : n = Len(s)
  BY LenProperties DEF Texts
<1>2. PICK x \in Seq(Texts) : x = Kept(s, T) /\ Len(x) = n /\ Keep(s, T) = FlattenSeq(x)
  BY <1>1, KeptType
<1> DEFINE g == [i \in 0..n |-> <<>>]
<1>3. g \in [0..n -> Texts] /\ g[0] = <<>> /\ g[n] = <<>>
  BY NoText
<1>4. ASSUME NEW i \in 1..n PROVE g[i] = g[i - 1] \o x[i]
  <2>1. x[i] = <<>>
    BY <1>1, <1>2 DEF Kept
  <2>2. i \in 0..n /\ i - 1 \in 0..n
    OBVIOUS
  <2>3. <<>> \o <<>> = <<>>
    BY NoText, ConcatEmptySeq DEF Texts
  <2> QED BY <2>1, <2>2, <2>3
<1> HIDE DEF g
<1>5. FlattenSeq(x) = g[n]
  <2>1. x \in Seq(Seq(Character)) /\ g \in [0..n -> Seq(Character)] /\ Len(x) = n
    BY <1>2, <1>3 DEF Texts
  <2>2. g[0] = <<>> /\ \A i \in 1..n : g[i] = g[i - 1] \o x[i]
    BY <1>3, <1>4
  <2> QED BY <2>1, <2>2, FlattenSeqIs
<1> QED BY <1>2, <1>3, <1>5

\* Where SelectInSeq finds a character.
Place(s, c) == IF {i \in 1..Len(s) : s[i] = c} # {} THEN Min({i \in 1..Len(s) : s[i] = c}) ELSE 0

\* The place of a character: none, or behind the text without it.
LEMMA PlaceNone ==
  ASSUME NEW s, NEW c, \A i \in 1..Len(s) : s[i] # c
  PROVE  Place(s, c) = 0
  BY DEF Place

LEMMA PlaceJoined ==
  ASSUME NEW a \in Texts, NEW c \in Character, NEW b \in Texts, \A i \in 1..Len(a) : a[i] # c
  PROVE  Place(a \o (<<c>> \o b), c) = Len(a) + 1
<1>1. PICK h \in Texts : h = <<c>> /\ Len(h) = 1 /\ h[1] = c
  BY OneCharacter
<1>2. PICK t \in Texts, n \in Nat : t = h \o b /\ n = Len(b) /\ Len(t) = n + 1 /\ t[1] = c
  <2>1. PICK t \in Texts : t = h \o b
    BY Joined
  <2>2. PICK n \in Nat : n = Len(b)
    BY LenProperties DEF Texts
  <2>3. IsJoin(t, h, b, 1, n)
    BY <1>1, <2>1, <2>2, JoinedFacts
  <2>4. 1 \in 1..1 /\ 1 + n = n + 1
    OBVIOUS
  <2>5. t[1] = c /\ Len(t) = n + 1
    BY <1>1, <2>3, <2>4 DEF IsJoin
  <2> QED BY <2>1, <2>2, <2>5
<1>3. PICK m \in Nat, u \in Texts : m = Len(a) /\ u = a \o t
  BY <1>2, LenProperties, Joined DEF Texts
<1>4. IsJoin(u, a, t, m, n + 1)
  BY <1>2, <1>3, JoinedFacts
<1>5. /\ Len(u) = m + (n + 1) /\ \A i \in 1..m : u[i] = a[i]
      /\ \A j \in 1..(n + 1) : u[m + j] = t[j]
  BY <1>4 DEF IsJoin
<1> DEFINE I == {i \in 1..Len(u) : u[i] = c}
<1>6. m + 1 \in I
  <2>1. 1 \in 1..(n + 1) /\ m + 1 \in 1..(m + (n + 1))
    OBVIOUS
  <2> QED BY <1>2, <1>5, <2>1
<1>7. ASSUME NEW i \in I PROVE m + 1 <= i
  <2>1. SUFFICES ASSUME i <= m PROVE FALSE
    BY <1>3, <1>5
  <2>2. i \in 1..m
    BY <1>5, <2>1
  <2> QED BY <1>3, <1>5, <2>2
<1>8. Min(I) = m + 1
  <2>1. I \in SUBSET Nat
    BY <1>5
  <2> HIDE DEF I
  <2>2. \A x \in I : (\A y \in I : x <= y) => x = m + 1
    BY <1>6, <1>7, <2>1
  <2>3. (m + 1 \in I /\ \A y \in I : m + 1 <= y)
    BY <1>6, <1>7
  <2> QED BY <2>2, <2>3 DEF Min
<1>9. Place(u, c) = m + 1
  <2>1. I # {}
    BY <1>6
  <2> QED BY <1>8, <2>1 DEF Place
<1> QED BY <1>1, <1>2, <1>3, <1>9

\* It is what strtof looks for.
LEMMA PlaceIsSelect ==
  ASSUME NEW s
  PROVE  /\ SelectInSeq(s, LAMBDA c : c = "e") = Place(s, "e")
         /\ SelectInSeq(s, LAMBDA c : c = ".") = Place(s, ".")
  BY DEF SelectInSeq, Place

\* strtof, from the text of the mantissa and that of the power.
Strtof(s, mantissa, power) ==
  LET mant == Keep(mantissa, Digits \cup {"."})
      dot  == Place(mant, ".")
      exp  == Decimal(Keep(power, Digits))
  IN  Float(s[1] = "-", Keep(mant, Digits),
            (IF dot = 0 THEN Len(mant) ELSE dot - 1)
                + (IF power # <<>> /\ power[1] = "-" THEN -exp ELSE exp))

\* strtof of a literal without a power, and with one.
LEMMA StrtofPlain ==
  ASSUME NEW s \in Texts, \A i \in 1..Len(s) : s[i] # "e"
  PROVE  strtof(s) = Strtof(s, s, <<>>)
<1>1. SelectInSeq(s, LAMBDA c : c = "e") = 0
  BY PlaceIsSelect, PlaceNone
<1> QED BY <1>1, PlaceIsSelect DEF strtof, Strtof

LEMMA StrtofPower ==
  ASSUME NEW mantissa \in Texts, \A i \in 1..Len(mantissa) : mantissa[i] # "e", NEW power \in Texts,
         NEW s, s = mantissa \o (<<"e">> \o power)
  PROVE  strtof(s) = Strtof(s, mantissa, power)
<1>1. "e" \in Character
  BY DEF Character, Literals
<1>2. PICK m \in Nat, n \in Nat : m = Len(mantissa) /\ n = Len(power)
  BY LenProperties DEF Texts
<1>3. SelectInSeq(s, LAMBDA c : c = "e") = m + 1
  BY <1>1, <1>2, PlaceIsSelect, PlaceJoined
<1>4. PICK h \in Texts : h = <<"e">> /\ Len(h) = 1 /\ h[1] = "e"
  BY <1>1, OneCharacter
<1>5. PICK t \in Texts : t = h \o power
  BY Joined
<1>6. IsJoin(t, h, power, 1, n)
  BY <1>2, <1>4, <1>5, JoinedFacts
<1>7. Len(t) = 1 + n
  BY <1>6 DEF IsJoin
<1>8. IsJoin(s, mantissa, t, m, 1 + n)
  BY <1>2, <1>4, <1>5, <1>7, JoinedFacts
<1>9. s \in Texts /\ Len(s) = m + (1 + n)
  BY <1>8 DEF IsJoin
<1>10. SubSeq(s, 1, (m + 1) - 1) = mantissa
  <2>1. 0 + Len(mantissa) <= Len(s) /\ \A j \in 1..Len(mantissa) : s[0 + j] = mantissa[j]
    BY <1>2, <1>8, <1>9 DEF IsJoin
  <2>2. SubSeq(s, 0 + 1, 0 + Len(mantissa)) = mantissa
    BY <1>9, <2>1, SubSeqSpelt
  <2>3. 0 + 1 = 1 /\ 0 + Len(mantissa) = (m + 1) - 1
    BY <1>2
  <2> QED BY <2>2, <2>3
<1>11. SubSeq(s, (m + 1) + 1, Len(s)) = power
  <2>1. ASSUME NEW j \in 1..n PROVE s[(m + 1) + j] = power[j]
    <3>1. 1 + j \in 1..(1 + n) /\ m + (1 + j) = (m + 1) + j
      BY <1>2
    <3>2. s[m + (1 + j)] = t[1 + j]
      BY <1>8, <3>1 DEF IsJoin
    <3>3. t[1 + j] = power[j]
      BY <1>6 DEF IsJoin
    <3> QED BY <3>1, <3>2, <3>3
  <2>2. PICK k \in Nat : k = m + 1
    OBVIOUS
  <2>3. k + Len(power) <= Len(s) /\ \A j \in 1..Len(power) : s[k + j] = power[j]
    BY <1>2, <1>9, <2>1, <2>2
  <2>4. SubSeq(s, k + 1, k + Len(power)) = power
    BY <1>9, <2>3, SubSeqSpelt
  <2>5. k + Len(power) = Len(s)
    BY <1>2, <1>9, <2>2
  <2> QED BY <2>2, <2>4, <2>5
<1>12. m + 1 # 0
  BY <1>2
<1>13. strtof(s) = Strtof(s, SubSeq(s, 1, (m + 1) - 1), SubSeq(s, (m + 1) + 1, Len(s)))
  BY <1>3, <1>12, PlaceIsSelect DEF strtof, Strtof
<1> QED BY <1>10, <1>11, <1>13

-----------------------------------------------------------------------------
(* The parts of a floating-point literal.                                     *)

\* The parts of a literal: its digits, its fraction and its power.
IsDigits(s) == s \in Texts /\ AllIn(s, Digits)

\* The other characters of a literal are no digits.
LEMMA DigitsOnly ==
  /\ "." \notin Digits
  /\ "-" \notin Digits
  /\ "e" \notin Digits
  /\ "+" \notin Digits
  BY DigitsFact

\* The parts of a floating-point literal: sign, digits, point and more digits, exponent.
SignOf(neg) == IF neg THEN <<"-">> ELSE <<>>
IsFraction(f, d) == \/ f = <<>> /\ d = <<>>
                    \/ f = <<".">> \o d /\ IsDigits(d)
IsPower(x, e) == \/ x = <<>> /\ e = 0
                 \/ \E sign \in {"+", "-"}, digits \in Texts :
                       /\ IsDigits(digits) /\ digits # <<>> /\ x = <<"e">> \o (<<sign>> \o digits)
                       /\ e = IF sign = "-" THEN -Decimal(digits) ELSE Decimal(digits)

\* The sign is a text of nothing but a minus.
LEMMA SignText ==
  ASSUME NEW neg \in BOOLEAN
  PROVE  /\ SignOf(neg) \in Texts
         /\ \A i \in 1..Len(SignOf(neg)) : SignOf(neg)[i] = "-"
         /\ Len(SignOf(neg)) \in Nat
<1>1. <<"-">> \in Texts
  BY LiteralTexts DEF Literals
<1>2. Len(<<"-">>) = 1 /\ <<"-">>[1] = "-" /\ Len(<<>>) = 0
  OBVIOUS
<1> QED BY <1>1, <1>2, NoText DEF SignOf

\* A fraction is a text.
LEMMA FractionText ==
  ASSUME NEW f, NEW d, IsFraction(f, d)
  PROVE  f \in Texts /\ IsDigits(d)
<1>1. CASE f = <<>> /\ d = <<>>
  <2>1. \A i \in 1..Len(<<>>) : <<>>[i] \in Digits
    OBVIOUS
  <2> QED BY <1>1, <2>1, NoText DEF IsDigits, AllIn
<1>2. CASE f = <<".">> \o d /\ IsDigits(d)
  <2>1. <<".">> \in Texts
    BY LiteralTexts DEF Literals
  <2> QED BY <1>2, <2>1, Joined DEF IsDigits
<1> QED BY <1>1, <1>2 DEF IsFraction

\* The mantissa without its sign.
Mantissa(z, ds, n, T) ==
  /\ z \in Texts /\ AllIn(z, T) /\ Keep(z, Digits) = ds
  /\ (IF Place(z, ".") = 0 THEN Len(z) ELSE Place(z, ".") - 1) = n

\* What strtof takes from the mantissa: its digits and where the point is.
LEMMA MantissaFacts ==
  ASSUME NEW i, IsDigits(i), NEW f, NEW d, IsFraction(f, d)
  PROVE  Mantissa(i \o f, i \o d, Len(i), Digits \cup {"."})
<1>1. i \in Texts /\ AllIn(i, Digits)
  BY DEF IsDigits
<1>2. PICK n \in Nat : n = Len(i)
  BY <1>1, LenProperties DEF Texts
<1>3. PICK T : T = Digits \cup {"."}
  OBVIOUS
<1>4. AllIn(i, T)
  BY <1>1, <1>3 DEF AllIn
<1>5. Keep(i, Digits) = i
  BY <1>1, KeepAll
<1>6. \A j \in 1..Len(i) : i[j] # "."
  BY <1>1, DigitsOnly DEF AllIn
<1>7. CASE f = <<>> /\ d = <<>>
  <2>1. i \o f = i /\ i \o d = i
    BY <1>1, <1>7, ConcatEmptySeq DEF Texts
  <2>2. Place(i, ".") = 0
    BY <1>6, PlaceNone
  <2> QED BY <1>1, <1>2, <1>3, <1>4, <1>5, <2>1, <2>2 DEF Mantissa
<1>8. CASE f = <<".">> \o d /\ IsDigits(d)
  <2>1. d \in Texts /\ AllIn(d, Digits)
    BY <1>8 DEF IsDigits
  <2>2. "." \in Character
    BY DEF Character, Literals
  <2>3. PICK p : p = <<".">> /\ p \in Texts
    BY LiteralTexts DEF Literals
  <2>4. Len(p) = 1 /\ p[1] = "."
    BY <2>3
  <2>5. PICK g \in Texts : g = p \o d
    BY <2>1, <2>3, Joined
  <2>6. PICK z \in Texts : z = i \o g
    BY <1>1, <2>5, Joined
  <2>7. AllIn(z, T)
    <3>1. AllIn(p, T)
      BY <1>3, <2>4 DEF AllIn
    <3>2. AllIn(d, T)
      BY <1>3, <2>1 DEF AllIn
    <3>3. AllIn(g, T)
      BY <2>1, <2>3, <2>5, <3>1, <3>2, AllInJoined
    <3> QED BY <1>1, <1>4, <2>5, <2>6, <3>3, AllInJoined
  <2>8. Keep(z, Digits) = i \o d
    <3>1. Keep(p, Digits) = <<>>
      <4>1. \A j \in 1..Len(p) : p[j] \notin Digits
        BY <2>4, DigitsOnly
      <4> QED BY <2>3, <4>1, KeepNone
    <3>2. Keep(d, Digits) = d
      BY <2>1, KeepAll
    <3>3. Keep(g, Digits) = Keep(p, Digits) \o Keep(d, Digits)
      <4>1. KeepJoins(p, d, Digits)
        BY <2>1, <2>3, KeepJoined
      <4> QED BY <2>5, <4>1 DEF KeepJoins
    <3>4. <<>> \o d = d
      BY <2>1, ConcatEmptySeq DEF Texts
    <3>5. Keep(z, Digits) = Keep(i, Digits) \o Keep(g, Digits)
      <4>1. KeepJoins(i, g, Digits)
        BY <1>1, KeepJoined
      <4> QED BY <2>6, <4>1 DEF KeepJoins
    <3> QED BY <1>5, <3>1, <3>2, <3>3, <3>4, <3>5
  <2>9. Place(z, ".") = n + 1
    <3>1. Place(i \o (<<".">> \o d), ".") = Len(i) + 1
      BY <1>1, <1>6, <2>1, <2>2, PlaceJoined
    <3> QED BY <1>2, <2>3, <2>5, <2>6, <3>1
  <2>10. n + 1 # 0 /\ (n + 1) - 1 = n
    BY <1>2
  <2>11. i \o f = z
    BY <1>8, <2>3, <2>5, <2>6
  <2> QED BY <1>2, <1>3, <2>6, <2>7, <2>8, <2>9, <2>10, <2>11 DEF Mantissa
<1> QED BY <1>7, <1>8 DEF IsFraction

\* The power: the text behind the e, if there is one, and what it stands for.
Power(power, e) ==
  /\ power \in Texts
  /\ e = IF power # <<>> /\ power[1] = "-" THEN -Decimal(Keep(power, Digits))
         ELSE Decimal(Keep(power, Digits))

\* No digits stand for zero.
LEMMA DecimalNone == Decimal(<<>>) = 0
<1>1. PICK f \in [0..Len(<<>>) -> Int] : Decimal(<<>>) = f[Len(<<>>)] /\ f[0] = 0
  BY EmptySeq, DecimalFacts
<1> QED BY <1>1

\* What strtof takes from the power.
LEMMA PowerFacts ==
  ASSUME NEW x, NEW e, IsPower(x, e)
  PROVE  \E power : Power(power, e) /\ ((x = power /\ power = <<>>) \/ x = <<"e">> \o power)
<1>1. CASE x = <<>> /\ e = 0
  <2>1. Keep(<<>>, Digits) = <<>>
    <3>1. \A j \in 1..Len(<<>>) : <<>>[j] \notin Digits
      OBVIOUS
    <3> QED BY <3>1, NoText, KeepNone
  <2>2. Power(<<>>, 0)
    BY <2>1, DecimalNone, NoText DEF Power
  <2> QED BY <1>1, <2>2
<1>2. ASSUME NEW sign \in {"+", "-"}, NEW digits, IsDigits(digits), x = <<"e">> \o (<<sign>> \o digits),
             e = IF sign = "-" THEN -Decimal(digits) ELSE Decimal(digits)
      PROVE  \E power : Power(power, e) /\ x = <<"e">> \o power
  <2>1. digits \in Texts /\ AllIn(digits, Digits)
    BY <1>2 DEF IsDigits
  <2>2. PICK p : p = <<sign>> /\ p \in Texts /\ Len(p) = 1 /\ p[1] = sign
    <3>1. sign \in Character
      BY DEF Character, Literals
    <3>2. <<sign>> \in Texts /\ Len(<<sign>>) = 1 /\ <<sign>>[1] = sign
      BY <3>1, Single DEF Texts
    <3> QED BY <3>2
  <2>3. PICK power \in Texts, n \in Nat : power = p \o digits /\ n = Len(digits)
    BY <2>1, <2>2, Joined, LenProperties DEF Texts
  <2>4. power # <<>> /\ power[1] = sign
    <3>1. IsJoin(power, p, digits, 1, n)
      BY <2>1, <2>2, <2>3, JoinedFacts
    <3>2. 1 \in 1..1 /\ 1 + n # 0
      BY <2>3
    <3>3. Len(power) # 0
      BY <3>1, <3>2 DEF IsJoin
    <3>4. power # <<>>
      BY <3>3
    <3> QED BY <2>2, <3>1, <3>2, <3>4 DEF IsJoin
  <2>5. Keep(power, Digits) = digits
    <3>1. Keep(p, Digits) = <<>>
      <4>1. \A j \in 1..Len(p) : p[j] \notin Digits
        BY <2>2, DigitsOnly
      <4> QED BY <2>2, <4>1, KeepNone
    <3>2. Keep(digits, Digits) = digits
      BY <2>1, KeepAll
    <3>3. Keep(power, Digits) = Keep(p, Digits) \o Keep(digits, Digits)
      <4>1. KeepJoins(p, digits, Digits)
        BY <2>1, <2>2, KeepJoined
      <4> QED BY <2>3, <4>1 DEF KeepJoins
    <3>4. <<>> \o digits = digits
      BY <2>1, ConcatEmptySeq DEF Texts
    <3> QED BY <3>1, <3>2, <3>3, <3>4
  <2>6. Power(power, e)
    BY <1>2, <2>4, <2>5 DEF Power
  <2> QED BY <1>2, <2>2, <2>3, <2>6
<1>3. CASE \E sign \in {"+", "-"}, digits \in Texts :
              /\ IsDigits(digits) /\ x = <<"e">> \o (<<sign>> \o digits)
              /\ e = IF sign = "-" THEN -Decimal(digits) ELSE Decimal(digits)
  <2>1. PICK sign \in {"+", "-"} : \E digits :
              /\ IsDigits(digits) /\ x = <<"e">> \o (<<sign>> \o digits)
              /\ e = IF sign = "-" THEN -Decimal(digits) ELSE Decimal(digits)
    BY <1>3
  <2> QED BY <1>2, <2>1
<1> QED BY <1>1, <1>3 DEF IsPower

\* What strtof makes of a literal.
LiteralText(neg, i, f, x) == SignOf(neg) \o ((i \o f) \o x)

\* strtof of a literal is the float of its digits, its point moved by its power.
StandsFor(neg, i, f, d, x, e) == strtof(LiteralText(neg, i, f, x)) = Float(neg, i \o d, Len(i) + e)

LEMMA StrtofParts ==
  ASSUME NEW neg \in BOOLEAN, NEW i, IsDigits(i), i # <<>>, NEW f, NEW d, IsFraction(f, d),
         NEW x, NEW e, IsPower(x, e)
  PROVE  StandsFor(neg, i, f, d, x, e)
<1>1. PICK s : s = SignOf(neg) \o ((i \o f) \o x)
  OBVIOUS
<1>2. PICK sg \in Texts : sg = SignOf(neg) /\ \A j \in 1..Len(sg) : sg[j] = "-"
  BY SignText
<1>3. i \in Texts /\ AllIn(i, Digits)
  BY DEF IsDigits
<1>4. PICK T : T = Digits \cup {"."}
  OBVIOUS
<1>5. PICK z \in Texts : z = i \o f /\ Mantissa(z, i \o d, Len(i), T)
  <2>1. f \in Texts
    BY FractionText
  <2> QED BY <1>3, <1>4, <2>1, MantissaFacts, Joined
<1>6. PICK m \in Texts : m = sg \o z
  BY Joined
<1>7. \A j \in 1..Len(m) : m[j] # "e"
  <2>1. PICK U : U = T \cup {"-"}
    OBVIOUS
  <2>2. AllIn(sg, U)
    BY <1>2, <2>1 DEF AllIn
  <2>3. AllIn(z, U)
    BY <1>5, <2>1 DEF AllIn, Mantissa
  <2>4. AllIn(m, U)
    BY <1>6, <2>2, <2>3, AllInJoined
  <2>5. "e" \notin U
    BY <1>4, <2>1, DigitsOnly
  <2> QED BY <2>4, <2>5 DEF AllIn
<1>8. Keep(m, T) = z
  <2>1. Keep(sg, T) = <<>>
    <3>1. "-" \notin T
      BY <1>4, DigitsOnly
    <3> QED BY <1>2, <3>1, KeepNone
  <2>2. Keep(z, T) = z
    BY <1>5, KeepAll DEF Mantissa
  <2>3. Keep(m, T) = Keep(sg, T) \o Keep(z, T)
    <3>1. KeepJoins(sg, z, T)
      BY KeepJoined
    <3> QED BY <1>6, <3>1 DEF KeepJoins
  <2>4. <<>> \o z = z
    BY ConcatEmptySeq DEF Texts
  <2> QED BY <2>1, <2>2, <2>3, <2>4
<1>9. PICK power : Power(power, e) /\ ((x = power /\ power = <<>>) \/ x = <<"e">> \o power)
  BY PowerFacts
<1>10. x \in Texts /\ power \in Texts
  <2>1. power \in Texts
    BY <1>9 DEF Power
  <2>2. <<"e">> \in Texts
    BY LiteralTexts DEF Literals
  <2> QED BY <1>9, <2>1, <2>2, Joined
<1>11. s = m \o x
  <2>1. Associates(sg, z, x)
    BY <1>10, TextsAssociate
  <2> QED BY <1>1, <1>2, <1>5, <1>6, <2>1 DEF Associates
<1>12. (s[1] = "-") = neg
  <2>1. PICK k \in Nat, n \in Nat, l \in Nat, h \in Nat : k = Len(sg) /\ n = Len(z) /\ l = Len(m) /\ h = Len(i)
    BY <1>3, LenProperties DEF Texts
  <2>2. n # 0 /\ h # 0
    <3>1. PICK b \in Nat : b = Len(f)
      BY FractionText, LenProperties DEF Texts
    <3>2. f \in Texts
      BY FractionText
    <3>3. IsJoin(z, i, f, h, b)
      BY <1>3, <1>5, <2>1, <3>1, <3>2, JoinedFacts
    <3>4. n = h + b
      BY <2>1, <3>3 DEF IsJoin
    <3>5. h # 0
      BY <1>3, <2>1, EmptySeq DEF Texts
    <3> QED BY <2>1, <3>1, <3>4, <3>5
  <2>3. IsJoin(m, sg, z, k, n)
    BY <1>6, <2>1, JoinedFacts
  <2>4. l = k + n
    BY <2>1, <2>3 DEF IsJoin
  <2>5. PICK b \in Nat : b = Len(x)
    BY <1>10, LenProperties DEF Texts
  <2>6. IsJoin(s, m, x, l, b)
    BY <1>10, <1>11, <2>1, <2>5, JoinedFacts
  <2>7. 1 \in 1..l /\ 1 \in 1..n /\ 1 \in 1..h
    BY <2>1, <2>2, <2>4
  <2>8. s[1] = m[1]
    BY <2>6, <2>7 DEF IsJoin
  <2>9. CASE neg
    <3>1. sg = <<"-">>
      BY <1>2, <2>9 DEF SignOf
    <3>2. k = 1 /\ 1 \in 1..k /\ sg[1] = "-"
      BY <2>1, <3>1
    <3> QED BY <2>3, <2>8, <2>9, <3>2 DEF IsJoin
  <2>10. CASE ~neg
    <3>1. sg = <<>>
      BY <1>2, <2>10 DEF SignOf
    <3>2. m = z
      BY <1>6, <3>1, ConcatEmptySeq DEF Texts
    <3>3. PICK c : c \in Nat /\ c = Len(f)
      BY FractionText, LenProperties DEF Texts
    <3>4. f \in Texts
      BY FractionText
    <3>5. IsJoin(z, i, f, h, c)
      BY <1>3, <1>5, <2>1, <3>3, <3>4, JoinedFacts
    <3>6. z[1] = i[1]
      BY <2>7, <3>5 DEF IsJoin
    <3>7. i[1] \in Digits
      BY <1>3, <2>1, <2>7 DEF AllIn
    <3>8. s[1] # "-"
      BY <2>8, <3>2, <3>6, <3>7, DigitsOnly
    <3> QED BY <2>10, <3>8
  <2> QED BY <2>9, <2>10
<1>13. strtof(s) = Strtof(s, m, power)
  <2>1. CASE x = power /\ power = <<>>
    <3>1. s = m
      BY <1>11, <2>1, ConcatEmptySeq DEF Texts
    <3> QED BY <1>7, <2>1, <3>1, StrtofPlain
  <2>2. CASE x = <<"e">> \o power
    BY <1>7, <1>10, <1>11, <2>2, StrtofPower
  <2> QED BY <1>9, <2>1, <2>2
<1>14. Strtof(s, m, power)
         = Float(neg, Keep(z, Digits), (IF Place(z, ".") = 0 THEN Len(z) ELSE Place(z, ".") - 1)
                    + (IF power # <<>> /\ power[1] = "-" THEN -Decimal(Keep(power, Digits))
                       ELSE Decimal(Keep(power, Digits))))
  BY <1>4, <1>8, <1>12 DEF Strtof
<1>15. Keep(z, Digits) = i \o d /\ (IF Place(z, ".") = 0 THEN Len(z) ELSE Place(z, ".") - 1) = Len(i)
  BY <1>5 DEF Mantissa
<1>16. e = IF power # <<>> /\ power[1] = "-" THEN -Decimal(Keep(power, Digits))
           ELSE Decimal(Keep(power, Digits))
  BY <1>9 DEF Power
<1>17. strtof(s) = Float(neg, i \o d, Len(i) + e)
  BY <1>13, <1>14, <1>15, <1>16
<1> QED BY <1>1, <1>17 DEF StandsFor, LiteralText

-----------------------------------------------------------------------------
(* What the digits of a literal stand for.                                    *)

\* Trim gives the place of the first digit that is not zero, or none.
LEMMA TrimIs ==
  ASSUME NEW s \in Texts, NEW p \in 1..Len(s), s[p] # "0", \A i \in 1..(p - 1) : s[i] = "0"
  PROVE  Trim(s) = p
<1>1. PICK n \in Nat : n = Len(s)
  BY LenProperties DEF Texts
<1>2. PICK k \in 0..n : k = Trim(s) /\ (k # 0 => s[k] # "0") /\ k # 0 /\ k <= p
  BY <1>1, TrimFacts
<1>3. k < p => k \in 1..(p - 1)
  BY <1>1, <1>2
<1> QED BY <1>1, <1>2, <1>3

LEMMA TrimNone ==
  ASSUME NEW s \in Texts, \A i \in 1..Len(s) : s[i] = "0"
  PROVE  Trim(s) = 0
<1>1. PICK n \in Nat : n = Len(s)
  BY LenProperties DEF Texts
<1>2. PICK k \in 0..n : k = Trim(s) /\ (k # 0 => s[k] # "0")
  BY <1>1, TrimFacts
<1>3. k # 0 => k \in 1..n
  OBVIOUS
<1> QED BY <1>1, <1>2, <1>3

\* Nothing but zeros.
AllZero(z) == \A i \in 1..Len(z) : z[i] = "0"

\* Digits without a zero in front or at the end, between zeros.
IsFloat(neg, w, point, ds, n) == Float(neg, w, point) = [neg |-> neg, digits |-> ds, point |-> n]

\* Zeros around the digits do not change a float, but for where its point is.
LEMMA FloatIs ==
  ASSUME NEW neg \in BOOLEAN, NEW point \in Int, NEW z1 \in Texts, AllZero(z1), NEW z2 \in Texts, AllZero(z2),
         NEW ds \in Texts, ds # <<>>, ds[1] # "0", ds[Len(ds)] # "0",
         NEW w, w = z1 \o (ds \o z2)
  PROVE  IsFloat(neg, w, point, ds, point - Len(z1))
<1>1. PICK a \in Nat : a = Len(z1)
  BY LenProperties DEF Texts
<1>2. PICK n \in Nat : n = Len(ds) /\ n # 0
  BY LenProperties, EmptySeq DEF Texts
<1>3. PICK b \in Nat : b = Len(z2)
  BY LenProperties DEF Texts
<1>4. PICK y \in Texts : y = ds \o z2
  BY Joined
<1>5. /\ Len(y) = n + b
      /\ \A i \in 1..n : y[i] = ds[i]
      /\ \A j \in 1..b : y[n + j] = z2[j]
  <2>1. IsJoin(y, ds, z2, n, b)
    BY <1>2, <1>3, <1>4, JoinedFacts
  <2> QED BY <2>1 DEF IsJoin
<1>6. w \in Texts /\ IsJoin(w, z1, y, a, n + b)
  <2>1. w = z1 \o y
    BY <1>4
  <2>2. w \in Texts
    BY <2>1, Joined
  <2>3. IsJoin(w, z1, y, a, n + b)
    BY <1>1, <1>5, <2>1, JoinedFacts
  <2> QED BY <2>2, <2>3
<1>7. /\ Len(w) = a + (n + b)
      /\ \A i \in 1..a : w[i] = "0"
      /\ \A j \in 1..n : w[a + j] = ds[j]
      /\ \A j \in 1..b : w[a + (n + j)] = "0"
  <2>1. /\ Len(w) = a + (n + b)
        /\ \A i \in 1..a : w[i] = z1[i]
        /\ \A j \in 1..(n + b) : w[a + j] = y[j]
    BY <1>6 DEF IsJoin
  <2>2. \A i \in 1..a : z1[i] = "0"
    BY <1>1 DEF AllZero
  <2>3. \A j \in 1..n : w[a + j] = ds[j]
    <3>1. \A j \in 1..n : j \in 1..(n + b)
      BY <1>2, <1>3
    <3> QED BY <1>5, <2>1, <3>1
  <2>4. ASSUME NEW j \in 1..b PROVE w[a + (n + j)] = "0"
    <3>1. n + j \in 1..(n + b)
      BY <1>2, <1>3
    <3>2. w[a + (n + j)] = y[n + j]
      BY <2>1, <3>1
    <3> QED BY <1>3, <1>5, <3>2 DEF AllZero
  <2> QED BY <2>1, <2>2, <2>3, <2>4
<1>8. Trim(w) = a + 1
  <2>1. PICK p \in 1..Len(w) : p = a + 1 /\ p - 1 = a
    BY <1>1, <1>2, <1>3, <1>7
  <2>2. w[p] # "0"
    <3>1. 1 \in 1..n
      BY <1>2
    <3> QED BY <1>7, <2>1, <3>1
  <2>3. \A i \in 1..(p - 1) : w[i] = "0"
    BY <1>7, <2>1
  <2> QED BY <1>6, <2>1, <2>2, <2>3, TrimIs
<1>9. Trim(Reverse(w)) = b + 1
  <2>1. PICK L \in Nat : L = Len(w) /\ L = a + (n + b)
    BY <1>7
  <2>2. PICK u \in Texts : u = Reverse(w) /\ Len(u) = L /\ \A i \in 1..L : u[i] = w[(L - i) + 1]
    <3>1. Reverse(w) = [i \in 1..L |-> w[(L - i) + 1]]
      BY <2>1 DEF Reverse
    <3>2. \A i \in 1..L : (L - i) + 1 \in 1..L
      OBVIOUS
    <3>3. \A i \in 1..L : w[i] \in Character
      BY <1>6, <2>1, ElementOfSeq DEF Texts
    <3>4. [i \in 1..L |-> w[(L - i) + 1]] \in [1..L -> Character]
      BY <3>2, <3>3
    <3>5. PICK g \in [1..L -> Character] : g = Reverse(w) /\ \A i \in 1..L : g[i] = w[(L - i) + 1]
      BY <3>1, <3>4
    <3>6. g \in Texts /\ Len(g) = L
      BY IsSeq DEF Texts
    <3> QED BY <3>5, <3>6
  <2>3. PICK p \in 1..Len(u) : p = b + 1 /\ p - 1 = b
    BY <1>2, <1>3, <1>1, <2>1, <2>2
  <2>4. u[p] # "0"
    <3>1. (L - p) + 1 = a + n
      BY <1>1, <1>2, <1>3, <2>1, <2>3
    <3>2. n \in 1..n
      BY <1>2
    <3>3. u[p] = w[a + n]
      BY <2>2, <2>3, <3>1
    <3>4. w[a + n] = ds[n]
      BY <1>7, <3>2
    <3> QED BY <1>2, <3>3, <3>4
  <2>5. ASSUME NEW i \in 1..(p - 1) PROVE u[i] = "0"
    <3>1. PICK j \in 1..b : j = (b - i) + 1
      BY <2>3
    <3>2. (L - i) + 1 = a + (n + j) /\ i \in 1..L
      BY <1>1, <1>2, <1>3, <2>1, <2>2, <2>3, <3>1
    <3>3. u[i] = w[a + (n + j)]
      BY <2>2, <3>2
    <3>4. w[a + (n + j)] = "0"
      BY <1>7
    <3> QED BY <3>3, <3>4
  <2>6. Trim(u) = p
    BY <2>3, <2>4, <2>5, TrimIs
  <2> QED BY <2>2, <2>3, <2>6
<1>10. SubSeq(w, a + 1, a + n) = ds
  <2>1. a + Len(ds) <= Len(w) /\ \A j \in 1..Len(ds) : w[a + j] = ds[j]
    BY <1>1, <1>2, <1>3, <1>7
  <2> QED BY <1>2, <1>6, <2>1, SubSeqSpelt
<1>11. PICK first \in Nat, last \in Nat : first = a + 1 /\ last = a + n /\ first # 0
  BY <1>1, <1>2
<1>12. Trim(w) = first /\ Len(w) + 1 - Trim(Reverse(w)) = last
  BY <1>1, <1>2, <1>3, <1>7, <1>8, <1>9, <1>11
<1>13. Float(neg, w, point) = [neg |-> neg, digits |-> SubSeq(w, first, last), point |-> point - first + 1]
  BY <1>11, <1>12 DEF Float
<1>14. point - first + 1 = point - Len(z1)
  BY <1>1, <1>11
<1> QED BY <1>10, <1>11, <1>13, <1>14 DEF IsFloat

\* A literal of zeros is zero.
LEMMA FloatZero ==
  ASSUME NEW neg \in BOOLEAN, NEW point \in Int, NEW z \in Texts, AllZero(z)
  PROVE  Float(neg, z, point) = [neg |-> neg, digits |-> <<>>, point |-> 0]
<1>1. Trim(z) = 0
  BY TrimNone DEF AllZero
<1> QED BY <1>1 DEF Float

-----------------------------------------------------------------------------
(* The automaton reads a literal.                                             *)

\* A floating-point literal as scan_number accepts it: sign, digits without a
\* zero in front, fraction, exponent, and not without both of them.
Literal(neg, i, f, d, x, e) ==
  /\ neg \in BOOLEAN
  /\ IsDigits(i) /\ i # <<>> /\ (i[1] = "0" => Len(i) = 1)
  /\ IsFraction(f, d) /\ (f # <<>> => d # <<>>)
  /\ IsPower(x, e)
  /\ f # <<>> \/ x # <<>>

\* The automaton reads a sign in front of a number.
LEMMA PathSign ==
  ASSUME NEW neg \in BOOLEAN, NEW m \in Texts, NEW b,
         \A a \in {"init", "minus"} : Path(a, m, b)
  PROVE  Path("init", SignOf(neg) \o m, b)
<1>1. CASE neg
  <2>1. "-" \in Character /\ <<"-">> \in Texts
    BY LiteralTexts DEF Literals, Character
  <2>2. goto("init", "-") = "minus"
    BY DEF goto
  <2>3. "init" \in Going /\ "minus" \in Going
    BY DEF Going, Labels, Inner
  <2>4. Path("init", <<"-">>, "minus")
    BY <2>1, <2>2, <2>3, PathOne
  <2>5. Path("init", <<"-">> \o m, b)
    BY <2>1, <2>4, PathJoined
  <2> QED BY <1>1, <2>5 DEF SignOf
<1>2. CASE ~neg
  <2>1. SignOf(neg) \o m = m
    BY <1>2, ConcatEmptySeq DEF SignOf, Texts
  <2> QED BY <2>1
<1> QED BY <1>1, <1>2

\* The first of some digits leads into a label, the others stay there.
LEMMA PathInto ==
  ASSUME NEW ds, IsDigits(ds), ds # <<>>, NEW a \in Going, NEW b \in {"any1", "decimal2", "any2"},
         \A c \in Digits : goto(a, c) = b
  PROVE  Path(a, ds, b)
<1>1. ds \in Texts /\ \A i \in 1..Len(ds) : ds[i] \in Digits
  BY DEF IsDigits, AllIn
<1>2. /\ ds[1] \in Character /\ Tail(ds) \in Texts /\ ds = <<ds[1]>> \o Tail(ds)
      /\ Len(Tail(ds)) = Len(ds) - 1 /\ \A i \in 1..Len(Tail(ds)) : Tail(ds)[i] = ds[i + 1]
  BY <1>1, HeadTailJoined
<1>3. PICK n \in Nat : n = Len(ds) /\ n # 0
  BY <1>1, LenProperties, EmptySeq DEF Texts
<1>4. ds[1] \in Digits
  <2>1. 1 \in 1..n
    BY <1>3
  <2> QED BY <1>1, <1>3, <2>1
<1>5. b \in Going
  BY DEF Going, Labels, Inner
<1>6. Path(a, <<ds[1]>>, b)
  BY <1>2, <1>4, <1>5, PathOne
<1>7. \A i \in 1..Len(Tail(ds)) : Tail(ds)[i] \in Digits
  <2>1. \A i \in 1..(n - 1) : i + 1 \in 1..n
    OBVIOUS
  <2> QED BY <1>1, <1>2, <1>3, <2>1
<1>8. Path(b, Tail(ds), b)
  BY <1>2, <1>7, PathDigits
<1>9. Path(a, <<ds[1]>> \o Tail(ds), b)
  <2>1. <<ds[1]>> \in Texts
    BY <1>2, OneCharacter
  <2> QED BY <1>2, <1>6, <1>8, <2>1, PathJoined
<1> QED BY <1>2, <1>9

\* The point and the digits behind it.
LEMMA PathFraction ==
  ASSUME NEW d, IsDigits(d), d # <<>>, NEW a \in {"zero", "any1"}
  PROVE  Path(a, <<".">> \o d, "decimal2")
<1>1. "." \in Character /\ <<".">> \in Texts
  BY LiteralTexts DEF Literals, Character
<1>2. goto("zero", ".") = "decimal1" /\ goto("any1", ".") = "decimal1"
  BY DigitsOnly DEF goto
<1>3. a \in Going /\ "decimal1" \in Going
  BY DEF Going, Labels, Inner
<1>4. Path(a, <<".">>, "decimal1")
  BY <1>1, <1>2, <1>3, PathOne
<1>5. \A c \in Digits : goto("decimal1", c) = "decimal2"
  BY DEF goto
<1>6. Path("decimal1", d, "decimal2")
  BY <1>3, <1>5, PathInto
<1> QED BY <1>1, <1>4, <1>6, PathJoined DEF IsDigits

\* The e, the sign and the digits behind them.
LEMMA PathExponent ==
  ASSUME NEW d, IsDigits(d), d # <<>>, NEW sign \in {"+", "-"}, NEW a \in {"zero", "any1", "decimal2"}
  PROVE  Path(a, <<"e">> \o (<<sign>> \o d), "any2")
<1>1. "e" \in Character /\ <<"e">> \in Texts /\ sign \in Character /\ <<sign>> \in Texts
  BY LiteralTexts DEF Literals, Character
<1>2. goto("zero", "e") = "exponent" /\ goto("any1", "e") = "exponent" /\ goto("decimal2", "e") = "exponent"
  BY DigitsOnly DEF goto
<1>3. a \in Going /\ "exponent" \in Going /\ "sign" \in Going
  BY DEF Going, Labels, Inner
<1>4. Path(a, <<"e">>, "exponent")
  BY <1>1, <1>2, <1>3, PathOne
<1>5. goto("exponent", sign) = "sign"
  BY DigitsOnly DEF goto
<1>6. Path("exponent", <<sign>>, "sign")
  BY <1>1, <1>3, <1>5, PathOne
<1>7. \A c \in Digits : goto("sign", c) = "any2"
  BY DEF goto
<1>8. Path("sign", d, "any2")
  BY <1>3, <1>7, PathInto
<1>9. Path("exponent", <<sign>> \o d, "any2")
  BY <1>1, <1>6, <1>8, PathJoined DEF IsDigits
<1>10. <<sign>> \o d \in Texts
  BY <1>1, Joined DEF IsDigits
<1> QED BY <1>1, <1>4, <1>9, <1>10, PathJoined

\* The automaton reads a literal, and ends where a float may.
LEMMA PathLiteral ==
  ASSUME NEW neg, NEW i, NEW f, NEW d, NEW x, NEW e, Literal(neg, i, f, d, x, e)
  PROVE  /\ LiteralText(neg, i, f, x) \in Texts
         /\ \E b \in {"decimal2", "any2"} : Path("init", LiteralText(neg, i, f, x), b)
<1>1. /\ neg \in BOOLEAN /\ i \in Texts /\ i # <<>> /\ (i[1] = "0" => Len(i) = 1)
      /\ (\A j \in 1..Len(i) : i[j] \in Digits) /\ IsFraction(f, d) /\ (f # <<>> => d # <<>>)
      /\ IsPower(x, e) /\ (f # <<>> \/ x # <<>>)
  BY DEF Literal, IsDigits, AllIn
<1>2. f \in Texts
  BY <1>1, FractionText
<1>3. PICK m \in Texts : m = i \o f
  BY <1>1, <1>2, Joined
<1>4. \A a \in {"init", "minus"} : \E b \in {"zero", "any1", "decimal2"} :
         Path(a, m, b) /\ (f # <<>> => b = "decimal2")
  <2> TAKE a \in {"init", "minus"}
  <2>1. PICK b \in {"zero", "any1"} : Path(a, i, b)
    BY <1>1, PathWhole
  <2>2. CASE f = <<>>
    <3>1. m = i
      BY <1>1, <1>3, <2>2, ConcatEmptySeq DEF Texts
    <3> QED BY <2>1, <2>2, <3>1
  <2>3. CASE f # <<>>
    <3>1. f = <<".">> \o d /\ IsDigits(d) /\ d # <<>>
      BY <1>1, <2>3 DEF IsFraction
    <3>2. Path(b, f, "decimal2")
      BY <2>1, <3>1, PathFraction
    <3>3. Path(a, m, "decimal2")
      BY <1>1, <1>2, <1>3, <2>1, <3>2, PathJoined
    <3> QED BY <3>3
  <2> QED BY <2>2, <2>3
<1>5. CASE x = <<>>
  <2>1. m \o x = m
    BY <1>3, <1>5, ConcatEmptySeq DEF Texts
  <2>2. f # <<>>
    BY <1>1, <1>5
  <2>3. \A a \in {"init", "minus"} : Path(a, m, "decimal2")
    BY <1>4, <2>2
  <2>4. Path("init", SignOf(neg) \o m, "decimal2")
    BY <1>1, <2>3, PathSign
  <2>5. SignOf(neg) \o m \in Texts
    BY <1>1, SignText, Joined
  <2> QED BY <1>3, <2>1, <2>4, <2>5 DEF LiteralText
<1>6. CASE x # <<>>
  <2>1. PICK sign \in {"+", "-"}, ds \in Texts : IsDigits(ds) /\ ds # <<>> /\ x = <<"e">> \o (<<sign>> \o ds)
    BY <1>1, <1>6 DEF IsPower
  <2>2. x \in Texts
    <3>1. /\ <<"e">> \in Texts
          /\ <<sign>> \in Texts
      BY LiteralTexts DEF Literals
    <3>2. <<sign>> \o ds \in Texts
      BY <2>1, <3>1, Joined DEF IsDigits
    <3> QED BY <2>1, <3>1, <3>2, Joined
  <2>3. PICK y \in Texts : y = m \o x
    BY <2>2, Joined
  <2>4. \A a \in {"init", "minus"} : Path(a, y, "any2")
    <3> TAKE a \in {"init", "minus"}
    <3>1. PICK b \in {"zero", "any1", "decimal2"} : Path(a, m, b)
      BY <1>4
    <3>2. Path(b, x, "any2")
      BY <2>1, PathExponent
    <3> QED BY <2>2, <2>3, <3>1, <3>2, PathJoined
  <2>5. Path("init", SignOf(neg) \o y, "any2")
    BY <1>1, <2>4, PathSign
  <2>6. SignOf(neg) \o y \in Texts
    BY <1>1, SignText, Joined
  <2> QED BY <1>3, <2>3, <2>5, <2>6 DEF LiteralText
<1> QED BY <1>5, <1>6

\* A point or an e makes it a float.
LEMMA LiteralRange ==
  ASSUME NEW neg, NEW i, NEW f, NEW d, NEW x, NEW e, Literal(neg, i, f, d, x, e)
  PROVE  /\ LiteralText(neg, i, f, x) # <<>> /\ Range(LiteralText(neg, i, f, x)) \cap {".", "e"} # {}
         /\ LiteralText(neg, i, f, x)[1] \in Digits \cup {"-"}
<1>1. /\ neg \in BOOLEAN /\ i \in Texts /\ i # <<>> /\ (\A j \in 1..Len(i) : i[j] \in Digits)
      /\ IsFraction(f, d) /\ IsPower(x, e) /\ (f # <<>> \/ x # <<>>)
  BY DEF Literal, IsDigits, AllIn
<1>2. f \in Texts
  BY <1>1, FractionText
<1>3. x = <<>> \/ \E y \in Texts : x = <<"e">> \o y
  <2>1. CASE x # <<>>
    <3>1. PICK sign \in {"+", "-"}, ds \in Texts : IsDigits(ds) /\ x = <<"e">> \o (<<sign>> \o ds)
      BY <1>1, <2>1 DEF IsPower
    <3>2. <<sign>> \in Texts
      BY LiteralTexts DEF Literals
    <3>3. <<sign>> \o ds \in Texts
      BY <3>1, <3>2, Joined DEF IsDigits
    <3> QED BY <3>1, <3>3
  <2> QED BY <2>1
<1>4. <<"e">> \in Texts /\ Len(<<"e">>) = 1 /\ <<"e">>[1] = "e"
  <2>1. <<"e">> \in Texts
    BY LiteralTexts DEF Literals
  <2> QED BY <2>1
<1>5. x \in Texts
  BY <1>3, <1>4, Joined, NoText
<1>6. PICK m \in Texts : m = i \o f
  BY <1>1, <1>2, Joined
<1>7. PICK y \in Texts : y = m \o x
  BY <1>5, Joined
<1>8. PICK s \in Texts : s = SignOf(neg) \o y
  BY <1>1, SignText, Joined
<1>9. s = LiteralText(neg, i, f, x)
  BY <1>6, <1>7, <1>8 DEF LiteralText
<1>10. PICK ni \in Nat, nf \in Nat, nx \in Nat : ni = Len(i) /\ nf = Len(f) /\ nx = Len(x)
  BY <1>1, <1>2, <1>5, LenProperties DEF Texts
<1>11. PICK g \in Nat : g = Len(SignOf(neg))
  BY <1>1, SignText
<1>12. ni # 0
  BY <1>1, <1>10, EmptySeq DEF Texts
<1>13. Len(m) = ni + nf /\ \A j \in 1..ni : m[j] = i[j]
  <2>1. IsJoin(m, i, f, ni, nf)
    BY <1>1, <1>2, <1>6, <1>10, JoinedFacts
  <2> QED BY <2>1 DEF IsJoin
<1>14. \A j \in 1..nf : m[ni + j] = f[j]
  <2>1. IsJoin(m, i, f, ni, nf)
    BY <1>1, <1>2, <1>6, <1>10, JoinedFacts
  <2> QED BY <2>1 DEF IsJoin
<1>15. /\ Len(y) = ni + nf + nx
       /\ \A j \in 1..(ni + nf) : y[j] = m[j]
       /\ \A j \in 1..nx : y[(ni + nf) + j] = x[j]
  <2>1. IsJoin(y, m, x, ni + nf, nx)
    BY <1>5, <1>7, <1>10, <1>13, JoinedFacts
  <2> QED BY <2>1 DEF IsJoin
<1>16. /\ Len(s) = g + (ni + nf + nx)
       /\ \A j \in 1..g : s[j] = SignOf(neg)[j]
       /\ \A j \in 1..(ni + nf + nx) : s[g + j] = y[j]
  <2>1. IsJoin(s, SignOf(neg), y, g, ni + nf + nx)
    BY <1>1, <1>8, <1>11, <1>15, SignText, JoinedFacts
  <2> QED BY <2>1 DEF IsJoin
<1>17. s # <<>>
  BY <1>12, <1>16, EmptySeq
<1>18. s[1] \in Digits \cup {"-"}
  <2>1. CASE g = 0
    <3>1. 1 \in 1..(ni + nf + nx) /\ g + 1 = 1 /\ 1 \in 1..(ni + nf) /\ 1 \in 1..ni
      BY <1>12, <2>1
    <3>2. s[1] = i[1]
      BY <1>13, <1>15, <1>16, <3>1
    <3> QED BY <1>1, <1>10, <3>1, <3>2
  <2>2. CASE g # 0
    <3>1. 1 \in 1..g
      BY <2>2
    <3> QED BY <1>1, <1>11, <1>16, <3>1, SignText
  <2> QED BY <2>1, <2>2
<1>19. Range(s) \cap {".", "e"} # {}
  <2>1. \A j \in 1..(g + (ni + nf + nx)) : s[j] \in Range(s)
    <3>1. DOMAIN s = 1..(g + (ni + nf + nx))
      BY <1>16, LenProperties DEF Texts
    <3> QED BY <3>1 DEF Range
  <2>2. CASE f # <<>>
    <3>1. f = <<".">> \o d /\ IsDigits(d)
      BY <1>1, <2>2 DEF IsFraction
    <3>2. <<".">> \in Texts /\ Len(<<".">>) = 1 /\ <<".">>[1] = "."
      <4>1. <<".">> \in Texts
        BY LiteralTexts DEF Literals
      <4> QED BY <4>1
    <3>3. nf # 0
      BY <1>2, <1>10, <2>2, EmptySeq DEF Texts
    <3>4. f[1] = "."
      <4>1. PICK n \in Nat : n = Len(d)
        BY <3>1, LenProperties DEF IsDigits, Texts
      <4>2. IsJoin(f, <<".">>, d, 1, n)
        BY <3>1, <3>2, <4>1, JoinedFacts DEF IsDigits
      <4>3. 1 \in 1..1
        OBVIOUS
      <4> QED BY <3>2, <4>2, <4>3 DEF IsJoin
    <3>5. PICK k \in Nat : k = ni + 1
      OBVIOUS
    <3>6. k \in 1..(ni + nf) /\ k \in 1..(ni + nf + nx) /\ g + k \in 1..(g + (ni + nf + nx)) /\ 1 \in 1..nf
      BY <3>3, <3>5
    <3>7. m[k] = "."
      BY <1>14, <3>4, <3>5, <3>6
    <3>8. s[g + k] = "."
      BY <1>15, <1>16, <3>6, <3>7
    <3> QED BY <2>1, <3>6, <3>8
  <2>3. CASE x # <<>>
    <3>1. PICK z \in Texts : x = <<"e">> \o z
      BY <1>3, <2>3
    <3>2. x[1] = "e"
      <4>1. PICK n \in Nat : n = Len(z)
        BY LenProperties DEF Texts
      <4>2. IsJoin(x, <<"e">>, z, 1, n)
        BY <1>4, <3>1, <4>1, JoinedFacts
      <4>3. 1 \in 1..1
        OBVIOUS
      <4> QED BY <1>4, <4>2, <4>3 DEF IsJoin
    <3>3. nx # 0
      BY <1>5, <1>10, <2>3, EmptySeq DEF Texts
    <3>4. PICK k \in Nat : k = (ni + nf) + 1
      OBVIOUS
    <3>5. k \in 1..(ni + nf + nx) /\ g + k \in 1..(g + (ni + nf + nx)) /\ 1 \in 1..nx
      BY <3>3, <3>4
    <3>6. y[k] = "e"
      BY <1>15, <3>2, <3>4, <3>5
    <3>7. s[g + k] = "e"
      BY <1>16, <3>5, <3>6
    <3> QED BY <2>1, <3>5, <3>7
  <2> QED BY <1>1, <2>2, <2>3
<1> QED BY <1>9, <1>17, <1>18, <1>19

\* A text with a point or an e that ends behind the digits of its fraction or of
\* its exponent is a float.
LEMMA FloatEnds ==
  ASSUME NEW text \in Texts, NEW q \in Nat, NEW s \in Texts, s # <<>>,
         Range(s) \cap {".", "e"} # {}, NEW b \in {"decimal2", "any2"}, Path("init", s, b),
         strtof(s).point \in Int, strtof(s).point <= MaxPoint, Flushed(strtof(s)) = strtof(s),
         NEW t \in Texts, Left(text, q, s \o t), get(t, 1) \in Follow
  PROVE  scan_number(text, q + 1) = Token("value", <<"float", strtof(s)>>, q + Len(s) + 1)
<1>1. PICK c \in Follow : c = get(t, 1)
  OBVIOUS
<1>2. goto("decimal2", c) = "done" /\ goto("any2", c) = "done"
  <2>1. c \notin Digits /\ c # "e"
    BY <1>1, DigitsFact DEF Follow, EOF
  <2> QED BY <2>1 DEF goto
<1>3. goto(b, get(t, 1)) = "done"
  BY <1>1, <1>2
<1>4. PICK m \in Nat : m = Len(s)
  BY LenProperties DEF Texts
<1>5. /\ RunNumber(text, q + 1) = [end |-> "done", at |-> q + 1 + m]
      /\ SubSeq(text, q + 1, q + m) = s
  <2>1. s # <<>> /\ Path("init", s, b)
    OBVIOUS
  <2>2. /\ RunNumber(text, q + 1) = [end |-> "done", at |-> q + 1 + Len(s)]
        /\ SubSeq(text, q + 1, q + Len(s)) = s
    BY <1>3, <2>1, NumberEnds
  <2> QED BY <1>4, <2>2
<1>6. PICK j \in Nat, at2 \in Nat : j = q + 1 /\ at2 = q + m + 1 /\ at2 - 1 = q + m /\ at2 = q + 1 + m
  <2>1. q + 1 \in Nat /\ q + m + 1 \in Nat /\ (q + m + 1) - 1 = q + m /\ q + m + 1 = q + 1 + m
    OBVIOUS
  <2> QED BY <2>1
<1>7. RunNumber(text, j) = [end |-> "done", at |-> at2] /\ SubSeq(text, j, at2 - 1) = s
  BY <1>5, <1>6
<1>8. strtof(s).point <= MaxPoint /\ strtof(s).point \in Int
  OBVIOUS
<1>9. scan_number(text, j) = Token("value", <<"float", strtof(s)>>, at2)
  <2> DEFINE run == RunNumber(text, j)
             z == SubSeq(text, j, run.at - 1)
             k == IF z[1] = "-" THEN -Decimal(Tail(z)) ELSE Decimal(z)
  <2>1. run = [end |-> "done", at |-> at2] /\ z = s
    BY <1>7
  <2>2. scan_number(text, j) =
        IF run.end = "error" THEN ParseError(run.at)
        ELSE IF Range(z) \cap {".", "e"} = {} /\ -LongHalf <= k /\ k < 2 * LongHalf
             THEN Token("value", <<"int", k>>, run.at)
             ELSE Token(IF strtof(z).point > MaxPoint THEN "overflow" ELSE "value",
                        <<"float", Flushed(strtof(z))>>, run.at)
    BY DEF scan_number, k, z, run
  <2>3. run.end # "error" /\ run.at = at2
    BY <2>1
  <2> HIDE DEF run, z, k
  <2>4. scan_number(text, j) = Token(IF strtof(s).point > MaxPoint THEN "overflow" ELSE "value",
                                     <<"float", Flushed(strtof(s))>>, at2)
    BY <2>1, <2>2, <2>3
  <2>5. ~(strtof(s).point > MaxPoint)
    <3>1. MaxPoint \in Nat
      BY TextAssumption
    <3> QED BY <1>8, <3>1
  <2> QED BY <1>8, <2>4, <2>5
<1> QED BY <1>4, <1>6, <1>9

-----------------------------------------------------------------------------
(* What the serializer writes for a float.                                    *)

\* A zero in front of a number changes nothing.
LEMMA LeadingZero ==
  ASSUME NEW D \in Texts
  PROVE  Decimal(<<"0">> \o D) = Decimal(D)
<1>1. PICK n \in Nat : n = Len(D)
  BY LenProperties DEF Texts
<1>2. <<"0">> \in Texts /\ Len(<<"0">>) = 1 /\ <<"0">>[1] = "0"
  <2>1. <<"0">> \in Texts
    BY LiteralTexts DEF Literals
  <2> QED BY <2>1
<1>3. PICK s \in Texts : s = <<"0">> \o D
  BY <1>2, Joined
<1>4. Len(s) = 1 + n /\ s[1] = "0" /\ \A j \in 1..n : s[1 + j] = D[j]
  <2>1. IsJoin(s, <<"0">>, D, 1, n)
    BY <1>1, <1>2, <1>3, JoinedFacts
  <2>2. 1 \in 1..1
    OBVIOUS
  <2> QED BY <1>2, <2>1, <2>2 DEF IsJoin
<1>5. PICK f \in [0..n -> Int] :
         /\ Decimal(D) = f[n] /\ f[0] = 0
         /\ \A k \in 1..n : f[k] = 10 * f[k - 1] + ValueOf(D[k])
  <2>1. \E f \in [0..Len(D) -> Int] :
            /\ Decimal(D) = f[Len(D)] /\ f[0] = 0
            /\ \A k \in 1..Len(D) : f[k] = 10 * f[k - 1] + ValueOf(D[k])
    BY DecimalFacts DEF Texts
  <2> QED BY <1>1, <2>1
<1>6. PICK g \in [0..(1 + n) -> Int] :
         /\ Decimal(s) = g[1 + n] /\ g[0] = 0
         /\ \A k \in 1..(1 + n) : g[k] = 10 * g[k - 1] + ValueOf(s[k])
  <2>1. \E g \in [0..Len(s) -> Int] :
            /\ Decimal(s) = g[Len(s)] /\ g[0] = 0
            /\ \A k \in 1..Len(s) : g[k] = 10 * g[k - 1] + ValueOf(s[k])
    BY DecimalFacts DEF Texts
  <2> QED BY <1>4, <2>1
<1>7. ValueOf("0") = 0
  <2>1. 0 \in 0..9 /\ 0 + 1 = 1
    OBVIOUS
  <2>2. DigitChars[1] = "0" /\ ValueOf(DigitChars[1]) = 0
    BY <2>1, DigitOf
  <2> QED BY <2>2
<1> DEFINE P == {k \in Nat : k <= n => g[1 + k] = f[k]}
<1>8. 0 \in P
  <2>1. 1 \in 1..(1 + n) /\ 1 - 1 = 0 /\ 1 + 0 = 1
    OBVIOUS
  <2>2. g[1] = 10 * g[0] + ValueOf(s[1])
    BY <1>6, <2>1
  <2>3. g[1] = 0
    BY <1>4, <1>6, <1>7, <2>2
  <2> QED BY <1>5, <2>1, <2>3
<1>9. ASSUME NEW k \in Nat, k \in P PROVE k + 1 \in P
  <2> SUFFICES ASSUME k + 1 <= n PROVE g[1 + (k + 1)] = f[k + 1]
    OBVIOUS
  <2>1. g[1 + k] = f[k]
    BY <1>9
  <2>2. PICK j \in 1..n : j = k + 1 /\ j - 1 = k
    OBVIOUS
  <2>3. PICK l \in 1..(1 + n) : l = 1 + j /\ l - 1 = 1 + k
    BY <2>2
  <2>4. g[l] = 10 * g[l - 1] + ValueOf(s[l])
    BY <1>6
  <2>5. f[j] = 10 * f[j - 1] + ValueOf(D[j])
    BY <1>5
  <2>6. s[l] = D[j]
    BY <1>4, <2>3
  <2> HIDE DEF P
  <2> QED BY <2>1, <2>2, <2>3, <2>4, <2>5, <2>6
<1>10. n \in P
  <2> HIDE DEF P
  <2>1. \A k \in Nat : k \in P
    BY <1>8, <1>9, Induction
  <2> QED BY <2>1
<1>11. g[1 + n] = f[n]
  BY <1>10
<1> QED BY <1>3, <1>5, <1>6, <1>11

\* What append_exponent writes behind the e.
LEMMA ExponentText ==
  ASSUME NEW e \in Int
  PROVE  IsPower(<<"e">> \o append_exponent(e), e)
<1>1. PICK k \in Nat : k = IF e < 0 THEN -e ELSE e
  OBVIOUS
<1>2. PICK sign \in {"+", "-"} : sign = IF e < 0 THEN "-" ELSE "+"
  OBVIOUS
<1>3. <<"0">> \in Texts /\ Len(<<"0">>) = 1 /\ <<"0">>[1] = "0" /\ <<sign>> \in Texts
  <2>1. <<"0">> \in Texts /\ <<sign>> \in Texts
    BY LiteralTexts DEF Literals
  <2> QED BY <2>1
<1>4. PICK ds \in Texts, m \in Nat :
         /\ ds = DigitsOf(k) /\ m = Len(ds) /\ m >= 1 /\ \A i \in 1..m : ds[i] \in Digits
         /\ Decimal(ds) = k
  BY DigitsOfBack
<1>5. PICK pad \in Texts : pad = IF k < 10 THEN <<"0">> ELSE <<>>
  BY <1>3, NoText
<1>6. PICK D \in Texts : D = pad \o ds
  BY Joined
<1>7. IsDigits(D) /\ D # <<>> /\ Decimal(D) = k
  <2>1. CASE pad = <<>>
    <3>1. D = ds
      BY <1>6, <2>1, ConcatEmptySeq DEF Texts
    <3> QED BY <1>4, <3>1, EmptySeq DEF IsDigits, AllIn
  <2>2. CASE pad = <<"0">>
    <3>1. Decimal(D) = k
      BY <1>4, <1>6, <2>2, LeadingZero
    <3>2. AllIn(ds, Digits)
      BY <1>4 DEF AllIn
    <3>3. AllIn(pad, Digits)
      <4>1. "0" \in Digits
        BY DigitsFact
      <4>2. \A i \in 1..1 : i = 1
        OBVIOUS
      <4> QED BY <1>3, <2>2, <4>1, <4>2 DEF AllIn
    <3>4. AllIn(D, Digits)
      BY <1>6, <3>2, <3>3, AllInJoined
    <3>5. IsJoin(D, pad, ds, 1, m)
      BY <1>3, <1>4, <1>6, <2>2, JoinedFacts
    <3>6. D # <<>>
      <4>1. Len(D) = 1 + m
        BY <3>5 DEF IsJoin
      <4> QED BY <4>1, EmptySeq
    <3> QED BY <3>1, <3>4, <3>6 DEF IsDigits
  <2> QED BY <1>5, <2>1, <2>2
<1>8. append_exponent(e) = <<sign>> \o D
  <2>1. append_exponent(e) = (<<sign>> \o pad) \o ds
    BY <1>1, <1>2, <1>4, <1>5 DEF append_exponent
  <2>2. Associates(<<sign>>, pad, ds)
    BY <1>3, TextsAssociate
  <2> QED BY <1>6, <2>1, <2>2 DEF Associates
<1>9. e = IF sign = "-" THEN -Decimal(D) ELSE Decimal(D)
  <2>1. CASE e < 0
    BY <1>1, <1>2, <1>7, <2>1
  <2>2. CASE ~(e < 0)
    <3>1. sign # "-" /\ k = e
      BY <1>1, <1>2, <2>2
    <3> QED BY <1>7, <3>1
  <2> QED BY <2>1, <2>2
<1> QED BY <1>7, <1>8, <1>9 DEF IsPower

\* m zeros.
Zeros(m) == [i \in 1..m |-> "0"]

LEMMA ZerosText ==
  ASSUME NEW m \in Nat
  PROVE  IsDigits(Zeros(m)) /\ AllZero(Zeros(m)) /\ Len(Zeros(m)) = m
<1>1. "0" \in Digits /\ "0" \in Character
  BY DigitsFact DEF Character, Literals
<1>2. PICK z \in [1..m -> Character] : z = Zeros(m) /\ \A i \in 1..m : z[i] = "0"
  <2>1. \A i \in 1..m : Zeros(m)[i] = "0"
    BY DEF Zeros
  <2>2. Zeros(m) \in [1..m -> Character]
    BY <1>1 DEF Zeros
  <2> QED BY <2>1, <2>2
<1>3. z \in Texts /\ Len(z) = m
  BY IsSeq DEF Texts
<1> QED BY <1>1, <1>2, <1>3 DEF IsDigits, AllIn, AllZero

\* The parts of a literal that stands for the digits ds and the point n.
LiteralParts(i, f, d, x, e) ==
  /\ IsDigits(i) /\ i # <<>> /\ (i[1] = "0" => Len(i) = 1)
  /\ IsFraction(f, d) /\ (f # <<>> => d # <<>>)
  /\ IsPower(x, e)
  /\ f # <<>> \/ x # <<>>

\* w has the digits ds between zeros, and its point where ds has it at n.
Between(w, ds, p, n) ==
  \E z1 \in Texts, z2 \in Texts :
     AllZero(z1) /\ AllZero(z2) /\ w = z1 \o (ds \o z2) /\ p - Len(z1) = n

\* What format_buffer writes is a literal of the float.
Buffer(ds, n, i, f, d, x, e) ==
  /\ LiteralParts(i, f, d, x, e)
  /\ format_buffer(ds, n) = (i \o f) \o x
  /\ Between(i \o d, ds, Len(i) + e, n)

\* Digits of a float, without zeros around them.
IsSignificant(ds) == IsDigits(ds) /\ ds # <<>> /\ ds[1] # "0" /\ ds[Len(ds)] # "0"

\* Small facts about texts of zeros and about nothing.
LEMMA NoPower == IsPower(<<>>, 0)
  BY DEF IsPower

LEMMA EmptyZero == <<>> \in Texts /\ AllZero(<<>>) /\ Len(<<>>) = 0 /\ IsDigits(<<>>)
<1>1. <<>> \in Texts /\ Len(<<>>) = 0
  BY NoText
<1>2. \A i \in 1..0 : FALSE
  OBVIOUS
<1> QED BY <1>1, <1>2 DEF AllZero, IsDigits, AllIn

LEMMA WithEmpty ==
  ASSUME NEW s \in Texts
  PROVE  s \o <<>> = s /\ <<>> \o s = s
  BY ConcatEmptySeq DEF Texts

LEMMA OnePoint == <<".">> \in Texts /\ Len(<<".">>) = 1
<1>1. <<".">> \in Texts
  BY LiteralTexts DEF Literals
<1> QED BY <1>1

LEMMA OneZero == <<"0">> \in Texts /\ Len(<<"0">>) = 1 /\ <<"0">>[1] = "0" /\ IsDigits(<<"0">>) /\ AllZero(<<"0">>)
<1>1. <<"0">> \in Texts
  BY LiteralTexts DEF Literals
<1>2. "0" \in Digits
  BY DigitsFact
<1>3. \A i \in 1..1 : i = 1
  OBVIOUS
<1>4. \A i \in 1..Len(<<"0">>) : <<"0">>[i] = "0"
  BY <1>3
<1> QED BY <1>1, <1>2, <1>4 DEF IsDigits, AllIn, AllZero

\* Zeros joined with zeros, and digits with digits.
LEMMA AllZeroJoined ==
  ASSUME NEW a \in Texts, AllZero(a), NEW b \in Texts, AllZero(b)
  PROVE  a \o b \in Texts /\ AllZero(a \o b)
<1>1. AllIn(a, {"0"}) /\ AllIn(b, {"0"})
  BY DEF AllZero, AllIn
<1>2. AllIn(a \o b, {"0"}) /\ a \o b \in Texts
  BY <1>1, AllInJoined, Joined
<1> QED BY <1>2 DEF AllZero, AllIn

LEMMA DigitsJoined ==
  ASSUME NEW a, IsDigits(a), NEW b, IsDigits(b)
  PROVE  IsDigits(a \o b)
  BY AllInJoined, Joined DEF IsDigits

\* A whole number: zeros up to the point, and one behind it.
LEMMA BufferWhole ==
  ASSUME NEW ds, IsSignificant(ds), NEW n \in Int, Len(ds) <= n, n <= kMaxExp
  PROVE  \E i, f, d, x, e : Buffer(ds, n, i, f, d, x, e)
<1>1. ds \in Texts /\ IsDigits(ds) /\ ds # <<>> /\ ds[1] # "0"
  BY DEF IsSignificant, IsDigits
<1>2. PICK k \in Nat : k = Len(ds) /\ k # 0
  BY <1>1, LenProperties, EmptySeq DEF Texts
<1>3. PICK m \in Nat : m = n - k
  BY <1>2
<1>4. PICK z \in Texts : z = Zeros(m) /\ IsDigits(z) /\ AllZero(z) /\ Len(z) = m
  BY ZerosText DEF IsDigits
<1>5. PICK d \in Texts : d = <<"0">> /\ Len(d) = 1 /\ IsDigits(d) /\ AllZero(d) /\ d # <<>>
  BY OneZero
<1>6. PICK p \in Texts : p = <<".">> /\ Len(p) = 1
  BY OnePoint
<1>7. PICK f \in Texts : f = p \o d
  BY Joined
<1>8. f = <<".", "0">>
  <2>1. "." \in Character /\ "0" \in Character
    BY DEF Character, Literals
  <2>2. <<".", "0">> = <<".">> \o <<"0">>
    BY <2>1, Pair
  <2> QED BY <1>5, <1>6, <1>7, <2>2
<1>9. PICK i \in Texts : i = ds \o z
  BY <1>1, Joined
<1>10. IsJoin(i, ds, z, k, m)
  BY <1>1, <1>2, <1>4, <1>9, JoinedFacts
<1>11. Len(i) = n /\ i[1] = ds[1]
  <2>1. 1 \in 1..k
    BY <1>2
  <2> QED BY <1>2, <1>3, <1>10, <2>1 DEF IsJoin
<1>12. LiteralParts(i, f, d, <<>>, 0)
  <2>1. IsDigits(i)
    BY <1>1, <1>4, <1>9, DigitsJoined
  <2>2. i # <<>>
    BY <1>2, <1>3, <1>11, EmptySeq
  <2>3. i[1] # "0"
    BY <1>1, <1>11
  <2>4. IsFraction(f, d) /\ f # <<>>
    <3>1. f # <<>>
      <4>1. IsJoin(f, p, d, 1, 1)
        BY <1>5, <1>6, <1>7, JoinedFacts
      <4>2. Len(f) = 1 + 1
        BY <4>1 DEF IsJoin
      <4>3. Len(f) # 0
        BY <4>2
      <4> QED BY <4>3, EmptySeq DEF Texts
    <3> QED BY <1>5, <1>6, <1>7, <3>1 DEF IsFraction
  <2> QED BY <1>5, <2>1, <2>2, <2>3, <2>4, NoPower DEF LiteralParts
<1>13. format_buffer(ds, n) = (i \o f) \o <<>>
  <2>1. format_buffer(ds, n) = (ds \o Zeros(n - k)) \o <<".", "0">>
    <3>1. k <= n /\ n <= kMaxExp /\ ~(n < k) /\ ~(n <= 0)
      BY <1>2
    <3> QED BY <1>2, <3>1 DEF format_buffer, Zeros
  <2>2. (i \o f) \o <<>> = i \o f
    BY Joined, WithEmpty
  <2> QED BY <1>3, <1>4, <1>8, <1>9, <2>1, <2>2
<1>14. Between(i \o d, ds, Len(i) + 0, n)
  <2>1. PICK z2 \in Texts : z2 = z \o d /\ AllZero(z2)
    BY <1>4, <1>5, AllZeroJoined
  <2>2. Associates(ds, z, d)
    BY <1>1, TextsAssociate
  <2>3. i \o d = ds \o z2
    BY <1>9, <2>1, <2>2 DEF Associates
  <2>4. <<>> \o (ds \o z2) = ds \o z2
    BY <1>1, Joined, WithEmpty
  <2>5. (Len(i) + 0) - Len(<<>>) = n
    BY <1>11
  <2> QED BY <2>1, <2>3, <2>4, <2>5, EmptyZero DEF Between
<1>15. Buffer(ds, n, i, f, d, <<>>, 0)
  BY <1>12, <1>13, <1>14 DEF Buffer
<1> QED BY <1>15

\* The point between the digits.
LEMMA BufferWithin ==
  ASSUME NEW ds, IsSignificant(ds), NEW n \in Int, 0 < n, n < Len(ds), n <= kMaxExp
  PROVE  \E i, f, d, x, e : Buffer(ds, n, i, f, d, x, e)
<1>1. ds \in Texts /\ (\A j \in 1..Len(ds) : ds[j] \in Digits) /\ ds # <<>> /\ ds[1] # "0"
  BY DEF IsSignificant, IsDigits, AllIn
<1>2. PICK k \in Nat : k = Len(ds) /\ n < k /\ n \in Nat
  BY <1>1, LenProperties DEF Texts
<1>3. PICK i \in Texts : i = SubSeq(ds, 1, n) /\ Len(i) = n /\ \A j \in 1..n : i[j] = ds[j]
  <2>1. 1 \in 1..(Len(ds) + 1) /\ n \in (1 - 1)..Len(ds)
    BY <1>2
  <2>2. SubSeq(ds, 1, n) \in Texts /\ Len(SubSeq(ds, 1, n)) = n - 1 + 1
    BY <1>1, <2>1, Parts
  <2>3. \A j \in 1..n : SubSeq(ds, 1, n)[j] = ds[j]
    OBVIOUS
  <2>4. PICK u \in Texts : u = SubSeq(ds, 1, n)
    BY <2>2
  <2>5. n - 1 + 1 = n
    OBVIOUS
  <2>6. Len(u) = n
    BY <2>2, <2>4, <2>5
  <2>7. \A j \in 1..n : u[j] = ds[j]
    BY <2>3, <2>4
  <2> QED BY <2>4, <2>6, <2>7
<1>4. PICK d \in Texts : d = SubSeq(ds, n + 1, k) /\ Len(d) = k - n /\ \A j \in 1..(k - n) : d[j] = ds[n + j]
  <2>1. n + 1 \in 1..(Len(ds) + 1) /\ k \in ((n + 1) - 1)..Len(ds)
    BY <1>2
  <2>2. SubSeq(ds, n + 1, k) \in Texts /\ Len(SubSeq(ds, n + 1, k)) = k - (n + 1) + 1
    BY <1>1, <2>1, Parts
  <2>3. \A j \in 1..(k - n) : SubSeq(ds, n + 1, k)[j] = ds[n + j]
    BY <1>2
  <2>4. PICK u \in Texts : u = SubSeq(ds, n + 1, k)
    BY <2>2
  <2>5. k - (n + 1) + 1 = k - n
    BY <1>2
  <2>6. Len(u) = k - n
    BY <2>2, <2>4, <2>5
  <2>7. \A j \in 1..(k - n) : u[j] = ds[n + j]
    BY <2>3, <2>4
  <2> QED BY <2>4, <2>6, <2>7
<1>5. PICK p \in Texts : p = <<".">> /\ Len(p) = 1
  BY OnePoint
<1>6. PICK f \in Texts : f = p \o d
  BY Joined
<1>7. LiteralParts(i, f, d, <<>>, 0)
  <2>1. IsDigits(i)
    <3>1. \A j \in 1..n : j \in 1..Len(ds)
      BY <1>2
    <3> QED BY <1>1, <1>3, <3>1 DEF IsDigits, AllIn
  <2>2. IsDigits(d)
    <3>1. \A j \in 1..(k - n) : n + j \in 1..Len(ds)
      BY <1>2
    <3> QED BY <1>1, <1>4, <3>1 DEF IsDigits, AllIn
  <2>3. i # <<>> /\ i[1] # "0"
    <3>1. 1 \in 1..n
      OBVIOUS
    <3> QED BY <1>1, <1>3, <3>1, EmptySeq
  <2>4. d # <<>>
    <3>1. Len(d) # 0
      BY <1>2, <1>4
    <3> QED BY <3>1, EmptySeq DEF Texts
  <2>5. f # <<>>
    <3>1. PICK c \in Nat : c = Len(d)
      BY LenProperties DEF Texts
    <3>2. IsJoin(f, p, d, 1, c)
      BY <1>5, <1>6, <3>1, JoinedFacts
    <3>3. Len(f) # 0
      <4>1. Len(f) = 1 + c
        BY <3>2 DEF IsJoin
      <4> QED BY <4>1
    <3> QED BY <3>3, EmptySeq DEF Texts
  <2>6. IsFraction(f, d)
    BY <1>5, <1>6, <2>2 DEF IsFraction
  <2> QED BY <2>1, <2>3, <2>4, <2>5, <2>6, NoPower DEF LiteralParts
<1>8. format_buffer(ds, n) = (i \o f) \o <<>>
  <2>1. format_buffer(ds, n) = (SubSeq(ds, 1, n) \o <<".">>) \o SubSeq(ds, n + 1, k)
    <3>1. 0 < n /\ n < k /\ n <= kMaxExp /\ ~(k <= n) /\ ~(n <= 0)
      BY <1>2
    <3> QED BY <1>2, <3>1 DEF format_buffer
  <2>2. Associates(i, p, d)
    BY TextsAssociate
  <2>3. (i \o f) \o <<>> = i \o f
    BY Joined, WithEmpty
  <2> QED BY <1>3, <1>4, <1>5, <1>6, <2>1, <2>2, <2>3 DEF Associates
<1>9. i \o d = ds
  <2>1. PICK w \in Texts : w = i \o d
    BY Joined
  <2>2. IsJoin(w, i, d, n, k - n)
    BY <1>2, <1>3, <1>4, <2>1, JoinedFacts
  <2>3. Len(w) = k
    <3>1. Len(w) = n + (k - n)
      BY <2>2 DEF IsJoin
    <3> QED BY <1>2, <3>1
  <2>4. ASSUME NEW j \in 1..k PROVE w[j] = ds[j]
    <3>1. CASE j <= n
      <4>1. j \in 1..n
        BY <3>1
      <4> QED BY <1>3, <2>2, <4>1 DEF IsJoin
    <3>2. CASE ~(j <= n)
      <4>1. PICK l \in 1..(k - n) : j = n + l
        <5>1. j - n \in 1..(k - n) /\ j = n + (j - n)
          BY <1>2, <3>2
        <5> QED BY <5>1
      <4> QED BY <1>4, <2>2, <4>1 DEF IsJoin
    <3> QED BY <3>1, <3>2
  <2> QED BY <1>1, <1>2, <2>1, <2>3, <2>4, SeqEqual DEF Texts
<1>10. Between(i \o d, ds, Len(i) + 0, n)
  <2>1. <<>> \o (ds \o <<>>) = ds
    BY <1>1, WithEmpty
  <2>2. (Len(i) + 0) - Len(<<>>) = n
    BY <1>2, <1>3
  <2> QED BY <1>9, <2>1, <2>2, EmptyZero DEF Between
<1>11. Buffer(ds, n, i, f, d, <<>>, 0)
  BY <1>7, <1>8, <1>10 DEF Buffer
<1> QED BY <1>11

\* The point in front of the digits.
LEMMA BufferBefore ==
  ASSUME NEW ds, IsSignificant(ds), NEW n \in Int, kMinExp < n, n <= 0
  PROVE  \E i, f, d, x, e : Buffer(ds, n, i, f, d, x, e)
<1>1. ds \in Texts /\ IsDigits(ds) /\ ds # <<>>
  BY DEF IsSignificant, IsDigits
<1>2. PICK k \in Nat : k = Len(ds) /\ k # 0
  BY <1>1, LenProperties, EmptySeq DEF Texts
<1>3. PICK m \in Nat : m = -n
  OBVIOUS
<1>4. PICK z \in Texts : z = Zeros(m) /\ IsDigits(z) /\ AllZero(z) /\ Len(z) = m
  BY ZerosText DEF IsDigits
<1>5. PICK i \in Texts : i = <<"0">> /\ Len(i) = 1 /\ IsDigits(i) /\ AllZero(i) /\ i # <<>>
  BY OneZero
<1>6. PICK p \in Texts : p = <<".">> /\ Len(p) = 1
  BY OnePoint
<1>7. PICK d \in Texts : d = z \o ds
  BY <1>1, Joined
<1>8. PICK f \in Texts : f = p \o d
  BY Joined
<1>9. Len(d) = m + k
  <2>1. IsJoin(d, z, ds, m, k)
    BY <1>1, <1>2, <1>4, <1>7, JoinedFacts
  <2> QED BY <2>1 DEF IsJoin
<1>10. LiteralParts(i, f, d, <<>>, 0)
  <2>1. IsDigits(d)
    BY <1>1, <1>4, <1>7, DigitsJoined
  <2>2. d # <<>>
    <3>1. Len(d) # 0
      BY <1>2, <1>9
    <3> QED BY <3>1, EmptySeq DEF Texts
  <2>3. f # <<>>
    <3>1. IsJoin(f, p, d, 1, m + k)
      BY <1>6, <1>8, <1>9, JoinedFacts
    <3>2. Len(f) # 0
      <4>1. Len(f) = 1 + (m + k)
        BY <3>1 DEF IsJoin
      <4> QED BY <4>1
    <3> QED BY <3>2, EmptySeq DEF Texts
  <2>4. IsFraction(f, d)
    BY <1>6, <1>8, <2>1 DEF IsFraction
  <2> QED BY <1>5, <2>2, <2>3, <2>4, NoPower DEF LiteralParts
<1>11. format_buffer(ds, n) = (i \o f) \o <<>>
  <2>1. format_buffer(ds, n) = (<<"0", ".">> \o Zeros(-n)) \o ds
    <3>1. kMinExp < n /\ n <= 0 /\ ~(k <= n) /\ ~(0 < n)
      BY <1>2
    <3> QED BY <1>2, <3>1 DEF format_buffer, Zeros
  <2>2. <<"0", ".">> = i \o p
    <3>1. "." \in Character /\ "0" \in Character
      BY DEF Character, Literals
    <3>2. <<"0", ".">> = <<"0">> \o <<".">>
      BY <3>1, Pair
    <3> QED BY <1>5, <1>6, <3>2
  <2>3. ((i \o p) \o z) \o ds = i \o (p \o (z \o ds))
    <3>1. AssociatesThrice(i, p, z, ds)
      BY <1>1, JoinedThrice
    <3> QED BY <3>1 DEF AssociatesThrice
  <2>4. (i \o f) \o <<>> = i \o f
    BY Joined, WithEmpty
  <2>5. format_buffer(ds, n) = ((i \o p) \o z) \o ds
    BY <1>3, <1>4, <2>1, <2>2
  <2> QED BY <1>7, <1>8, <2>3, <2>4, <2>5
<1>12. Between(i \o d, ds, Len(i) + 0, n)
  <2>1. PICK z1 \in Texts : z1 = i \o z /\ AllZero(z1)
    BY <1>4, <1>5, AllZeroJoined
  <2>2. Len(z1) = 1 + m
    <3>1. IsJoin(z1, i, z, 1, m)
      BY <1>4, <1>5, <2>1, JoinedFacts
    <3> QED BY <3>1 DEF IsJoin
  <2>3. Associates(i, z, ds)
    BY <1>1, TextsAssociate
  <2>4. i \o d = z1 \o ds
    BY <1>7, <2>1, <2>3 DEF Associates
  <2>5. ds \o <<>> = ds
    BY <1>1, WithEmpty
  <2>6. (Len(i) + 0) - Len(z1) = n
    BY <1>3, <1>5, <2>2
  <2> QED BY <2>1, <2>4, <2>5, <2>6, EmptyZero DEF Between
<1>13. Buffer(ds, n, i, f, d, <<>>, 0)
  BY <1>10, <1>11, <1>12 DEF Buffer
<1> QED BY <1>13

\* The point behind the first digit, and an exponent.
LEMMA BufferExponent ==
  ASSUME NEW ds, IsSignificant(ds), NEW n \in Int,
         n > kMaxExp \/ n <= kMinExp
  PROVE  \E i, f, d, x, e : Buffer(ds, n, i, f, d, x, e)
<1>1. ds \in Texts /\ IsDigits(ds) /\ ds # <<>> /\ ds[1] # "0"
  BY DEF IsSignificant, IsDigits
<1>2. PICK k \in Nat : k = Len(ds) /\ k # 0
  BY <1>1, LenProperties, EmptySeq DEF Texts
<1>3. /\ ds[1] \in Character /\ Tail(ds) \in Texts /\ ds = <<ds[1]>> \o Tail(ds)
      /\ Len(Tail(ds)) = k - 1 /\ \A j \in 1..Len(Tail(ds)) : Tail(ds)[j] = ds[j + 1]
  BY <1>1, <1>2, HeadTailJoined
<1>4. ds[1] \in Digits
  <2>1. 1 \in 1..Len(ds)
    BY <1>2
  <2> QED BY <1>1, <2>1 DEF IsDigits, AllIn
<1>5. PICK i \in Texts : i = <<ds[1]>> /\ Len(i) = 1 /\ i[1] = ds[1] /\ i # <<>>
  BY <1>3, OneCharacter
<1>6. PICK tail \in Texts : tail = Tail(ds) /\ Len(tail) = k - 1 /\ IsDigits(tail)
  <2>1. \A j \in 1..(k - 1) : j + 1 \in 1..Len(ds)
    BY <1>2
  <2>2. \A j \in 1..(k - 1) : Tail(ds)[j] \in Digits
    BY <1>1, <1>3, <2>1 DEF IsDigits, AllIn
  <2> QED BY <1>3, <2>2 DEF IsDigits, AllIn
<1>7. PICK p \in Texts : p = <<".">> /\ Len(p) = 1
  BY OnePoint
<1>8. PICK f \in Texts, d \in Texts :
         /\ f = (IF k = 1 THEN <<>> ELSE <<".">> \o tail) /\ d = tail
         /\ IsFraction(f, d) /\ (f # <<>> => d # <<>>)
  <2>1. CASE k = 1
    <3>1. tail = <<>>
      BY <1>6, <2>1, EmptySeq DEF Texts
    <3> QED BY <2>1, <3>1, NoText DEF IsFraction
  <2>2. CASE k # 1
    <3>1. Len(tail) # 0
      BY <1>2, <1>6, <2>2
    <3>2. tail # <<>>
      BY <3>1, EmptySeq DEF Texts
    <3>3. <<".">> \o tail \in Texts
      BY <1>7, Joined
    <3>4. IsFraction(<<".">> \o tail, tail)
      BY <1>6 DEF IsFraction
    <3> QED BY <2>2, <3>2, <3>3, <3>4
  <2> QED BY <2>1, <2>2
<1>9. PICK a \in Texts : a = append_exponent(n - 1)
  BY ExponentType
<1>10. PICK h \in Texts : h = <<"e">> /\ Len(h) = 1
  <2>1. <<"e">> \in Texts
    BY LiteralTexts DEF Literals
  <2> QED BY <2>1
<1>11. PICK x \in Texts : x = h \o a
  BY Joined
<1>12. IsPower(x, n - 1) /\ x # <<>>
  <2>1. n - 1 \in Int
    OBVIOUS
  <2>2. IsPower(x, n - 1)
    BY <1>9, <1>10, <1>11, <2>1, ExponentText
  <2>3. PICK c \in Nat : c = Len(a)
    BY LenProperties DEF Texts
  <2>4. IsJoin(x, h, a, 1, c)
    BY <1>10, <1>11, <2>3, JoinedFacts
  <2>5. Len(x) # 0
    <3>1. Len(x) = 1 + c
      BY <2>4 DEF IsJoin
    <3> QED BY <3>1
  <2> QED BY <2>2, <2>5, EmptySeq DEF Texts
<1>13. LiteralParts(i, f, d, x, n - 1)
  <2>1. IsDigits(i)
    <3>1. \A j \in 1..1 : j = 1
      OBVIOUS
    <3> QED BY <1>4, <1>5, <3>1 DEF IsDigits, AllIn
  <2> QED BY <1>1, <1>5, <1>8, <1>12, <2>1 DEF LiteralParts
<1>14. format_buffer(ds, n) = (i \o f) \o x
  <2>1. format_buffer(ds, n) = ((<<ds[1]>> \o (IF k = 1 THEN <<>> ELSE <<".">> \o Tail(ds))) \o <<"e">>)
                               \o append_exponent(n - 1)
    <3>1. kMaxExp \in Nat /\ kMinExp \in Int /\ kMinExp < 0
      BY TextAssumption DEF kMinExp
    <3>2. ~(k <= n /\ n <= kMaxExp) /\ ~(0 < n /\ n < k /\ n <= kMaxExp) /\ ~(kMinExp < n /\ n <= 0)
      BY <3>1
    <3> QED BY <1>2, <3>2 DEF format_buffer
  <2>2. PICK u \in Texts : u = i \o f
    BY Joined
  <2>3. Associates(u, h, a)
    BY TextsAssociate
  <2>4. format_buffer(ds, n) = (u \o h) \o a
    BY <1>5, <1>6, <1>8, <1>9, <1>10, <2>1, <2>2
  <2> QED BY <1>11, <2>2, <2>3, <2>4 DEF Associates
<1>15. Between(i \o d, ds, Len(i) + (n - 1), n)
  <2>1. i \o d = ds
    BY <1>3, <1>5, <1>6, <1>8
  <2>2. <<>> \o (ds \o <<>>) = ds
    BY <1>1, WithEmpty
  <2>3. (Len(i) + (n - 1)) - Len(<<>>) = n
    BY <1>5
  <2> QED BY <2>1, <2>2, <2>3, EmptyZero DEF Between
<1>16. Buffer(ds, n, i, f, d, x, n - 1)
  BY <1>13, <1>14, <1>15 DEF Buffer
<1> QED BY <1>16

\* A float as the lexer makes it and within the range of a double: digits without
\* zeros around them, and no more than one zero.
WritableFloat(v) ==
  /\ v \in Floats /\ IsDigits(v.digits)
  /\ v.digits = <<>> => v.point = 0
  /\ v.digits # <<>> => IsSignificant(v.digits)
  /\ TinyPoint <= v.point /\ v.point <= MaxPoint

\* The parts of the literal that is written for v, which stands for v.
IsLiteralOf(v, i, f, d, x, e) ==
  /\ Literal(v.neg, i, f, d, x, e)
  /\ LiteralText(v.neg, i, f, x) = dump_float(v)
  /\ Float(v.neg, i \o d, Len(i) + e) = v

\* Each of the four layouts of format_buffer is such a literal.
LEMMA FormatBuffer ==
  ASSUME NEW ds, IsSignificant(ds), NEW n \in Int
  PROVE  \E i, f, d, x, e : Buffer(ds, n, i, f, d, x, e)
<1>1. PICK k \in Nat : k = Len(ds)
  BY LenProperties DEF IsSignificant, IsDigits, Texts
<1>2. kMaxExp \in Nat /\ kMinExp \in Int /\ kMinExp < 0
  BY TextAssumption DEF kMinExp
<1>3. CASE k <= n /\ n <= kMaxExp
  BY <1>1, <1>3, BufferWhole
<1>4. CASE 0 < n /\ n < k /\ n <= kMaxExp
  BY <1>1, <1>4, BufferWithin
<1>5. CASE kMinExp < n /\ n <= 0
  BY <1>5, BufferBefore
<1>6. CASE n > kMaxExp \/ n <= kMinExp
  BY <1>6, BufferExponent
<1>7. \/ k <= n /\ n <= kMaxExp
      \/ 0 < n /\ n < k /\ n <= kMaxExp
      \/ kMinExp < n /\ n <= 0
      \/ n > kMaxExp \/ n <= kMinExp
  BY <1>1, <1>2
<1> QED BY <1>3, <1>4, <1>5, <1>6, <1>7

\* What dump_float writes is a literal that stands for the float.
LEMMA FloatLiteral ==
  ASSUME NEW v, WritableFloat(v)
  PROVE  \E i, f, d, x, e : IsLiteralOf(v, i, f, d, x, e)
<1>1. PICK neg, ds, n : neg = v.neg /\ ds = v.digits /\ n = v.point
  OBVIOUS
<1>2. /\ neg \in BOOLEAN /\ n \in Int
      /\ neg = v.neg /\ ds = v.digits /\ n = v.point /\ v = [neg |-> neg, digits |-> ds, point |-> n]
      /\ IsDigits(ds) /\ (ds = <<>> => n = 0) /\ (ds # <<>> => IsSignificant(ds))
  <2>1. v \in [neg : BOOLEAN, digits : Texts, point : Int]
    BY DEF WritableFloat, Floats
  <2>2. /\ v.neg \in BOOLEAN /\ v.point \in Int
        /\ v = [neg |-> v.neg, digits |-> v.digits, point |-> v.point]
    BY <2>1
  <2>3. IsDigits(v.digits) /\ (v.digits = <<>> => v.point = 0) /\ (v.digits # <<>> => IsSignificant(v.digits))
    BY DEF WritableFloat
  <2> QED BY <1>1, <2>2, <2>3, Zenon
<1>3. CASE ds = <<>>
  <2>1. PICK i \in Texts : i = <<"0">> /\ Len(i) = 1 /\ IsDigits(i) /\ AllZero(i) /\ i # <<>>
    BY OneZero
  <2>2. PICK p \in Texts : p = <<".">> /\ Len(p) = 1
    BY OnePoint
  <2>3. PICK f \in Texts : f = p \o i
    BY Joined
  <2>4. f # <<>>
    <3>1. IsJoin(f, p, i, 1, 1)
      BY <2>1, <2>2, <2>3, JoinedFacts
    <3>2. Len(f) # 0
      <4>1. Len(f) = 1 + 1
        BY <3>1 DEF IsJoin
      <4> QED BY <4>1
    <3> QED BY <3>2, EmptySeq DEF Texts
  <2>5. IsFraction(f, i)
    BY <2>1, <2>2, <2>3 DEF IsFraction
  <2>6. Literal(neg, i, f, i, <<>>, 0)
    BY <1>2, <2>1, <2>4, <2>5, NoPower DEF Literal
  <2>7. (i \o f) \o <<>> = <<"0", ".", "0">>
    <3>1. (i \o f) \o <<>> = i \o f
      BY Joined, WithEmpty
    <3>2. "." \in Character /\ "0" \in Character
      BY DEF Character, Literals
    <3>3. f = <<".", "0">>
      BY <2>1, <2>2, <2>3, <3>2, Pair
    <3>4. PICK w \in Texts : w = i \o f
      BY <2>1, Joined
    <3>5. Len(f) = 2 /\ f[1] = "." /\ f[2] = "0"
      BY <3>3
    <3>6. IsJoin(w, i, f, 1, 2)
      BY <2>1, <3>4, <3>5, JoinedFacts
    <3>7. Len(w) = 3 /\ w[1] = "0" /\ w[2] = "." /\ w[3] = "0"
      <4>1. Len(w) = 1 + 2 /\ (\A l \in 1..1 : w[l] = i[l]) /\ \A j \in 1..2 : w[1 + j] = f[j]
        BY <3>6 DEF IsJoin
      <4>2. 1 \in 1..1 /\ 1 \in 1..2 /\ 2 \in 1..2 /\ 1 + 1 = 2 /\ 1 + 2 = 3
        OBVIOUS
      <4>3. w[2] = f[1] /\ w[3] = f[2]
        BY <4>1, <4>2
      <4> QED BY <2>1, <3>5, <4>1, <4>2, <4>3
    <3>8. w = <<"0", ".", "0">>
      BY <3>7 DEF Texts
    <3> QED BY <3>1, <3>4, <3>8
  <2>8. LiteralText(neg, i, f, <<>>) = dump_float(v)
    <3>1. dump_float(v) = SignOf(neg) \o <<"0", ".", "0">>
      BY <1>2, <1>3 DEF dump_float, SignOf
    <3> QED BY <2>7, <3>1 DEF LiteralText
  <2>9. Float(neg, i \o i, Len(i) + 0) = v
    <3>1. i \o i \in Texts /\ AllZero(i \o i)
      BY <2>1, AllZeroJoined
    <3>2. Len(i) + 0 \in Int
      BY <2>1
    <3>3. Float(neg, i \o i, Len(i) + 0) = [neg |-> neg, digits |-> <<>>, point |-> 0]
      BY <1>2, <3>1, <3>2, FloatZero
    <3> QED BY <1>2, <1>3, <3>3
  <2>10. IsLiteralOf(v, i, f, i, <<>>, 0)
    BY <1>2, <2>6, <2>8, <2>9 DEF IsLiteralOf
  <2> QED BY <2>10
<1>4. CASE ds # <<>>
  <2>1. IsSignificant(ds)
    BY <1>2, <1>4
  <2>2. PICK i, f, d, x, e : Buffer(ds, n, i, f, d, x, e)
    BY <1>2, <2>1, FormatBuffer
  <2>3. /\ LiteralParts(i, f, d, x, e) /\ format_buffer(ds, n) = (i \o f) \o x
        /\ Between(i \o d, ds, Len(i) + e, n)
    BY <2>2 DEF Buffer
  <2>4. Literal(neg, i, f, d, x, e)
    BY <1>2, <2>3 DEF LiteralParts, Literal
  <2>5. LiteralText(neg, i, f, x) = dump_float(v)
    <3>1. dump_float(v) = SignOf(neg) \o format_buffer(ds, n)
      BY <1>2, <1>4 DEF dump_float, SignOf
    <3> QED BY <2>3, <3>1 DEF LiteralText
  <2>6. PICK point \in Int : point = Len(i) + e
    <3>1. e \in Int
      <4>1. IsPower(x, e)
        BY <2>3 DEF LiteralParts
      <4>2. CASE e = 0
        BY <4>2
      <4>3. ASSUME NEW sign, NEW digits, IsDigits(digits),
                   e = IF sign = "-" THEN -Decimal(digits) ELSE Decimal(digits)
            PROVE  e \in Int
        <5>1. Decimal(digits) \in Int
          BY <4>3, DecimalType DEF IsDigits, Texts
        <5> QED BY <4>3, <5>1
      <4> QED BY <4>1, <4>2, <4>3 DEF IsPower
    <3>2. Len(i) \in Nat
      BY <2>4, LenProperties DEF Literal, IsDigits, Texts
    <3> QED BY <3>1, <3>2
  <2>7. PICK z1 \in Texts, z2 \in Texts :
           AllZero(z1) /\ AllZero(z2) /\ i \o d = z1 \o (ds \o z2) /\ point - Len(z1) = n
    BY <2>3, <2>6 DEF Between
  <2>8. ds \in Texts /\ ds # <<>> /\ ds[1] # "0" /\ ds[Len(ds)] # "0"
    BY <2>1 DEF IsSignificant, IsDigits
  <2>9. PICK w : w = i \o d
    OBVIOUS
  <2>10. Float(neg, w, point) = [neg |-> neg, digits |-> ds, point |-> point - Len(z1)]
    <3>1. w = z1 \o (ds \o z2)
      BY <2>7, <2>9
    <3>2. neg \in BOOLEAN /\ point \in Int /\ AllZero(z1) /\ AllZero(z2)
      BY <1>2, <2>7
    <3>3. IsFloat(neg, w, point, ds, point - Len(z1))
      BY <2>8, <3>1, <3>2, FloatIs
    <3> QED BY <3>3 DEF IsFloat
  <2>11. IsLiteralOf(v, i, f, d, x, e)
    BY <1>2, <2>4, <2>5, <2>6, <2>7, <2>9, <2>10 DEF IsLiteralOf
  <2> QED BY <2>11
<1> QED BY <1>3, <1>4

\* A float is read as it was written.
LEMMA FloatBack ==
  ASSUME NEW v, WritableFloat(v), NEW s, s = dump_float(v),
         NEW text \in Texts, NEW q \in Nat, NEW t \in Texts, Left(text, q, s \o t), get(t, 1) \in Follow
  PROVE  /\ s \in Texts /\ s # <<>> /\ s[1] \in Digits \cup {"-"}
         /\ scan_number(text, q + 1) = Token("value", <<"float", v>>, q + Len(s) + 1)
<1>1. PICK i, f, d, x, e : IsLiteralOf(v, i, f, d, x, e)
  BY FloatLiteral
<1>2. /\ Literal(v.neg, i, f, d, x, e) /\ LiteralText(v.neg, i, f, x) = s
      /\ Float(v.neg, i \o d, Len(i) + e) = v
  BY <1>1 DEF IsLiteralOf
<1>3. s \in Texts /\ \E b \in {"decimal2", "any2"} : Path("init", s, b)
  BY <1>2, PathLiteral
<1>4. s # <<>> /\ Range(s) \cap {".", "e"} # {} /\ s[1] \in Digits \cup {"-"}
  BY <1>2, LiteralRange
<1>5. strtof(s) = v
  <2>1. v.neg \in BOOLEAN /\ IsDigits(i) /\ i # <<>> /\ IsFraction(f, d) /\ IsPower(x, e)
    BY <1>2 DEF Literal
  <2>2. StandsFor(v.neg, i, f, d, x, e)
    BY <2>1, StrtofParts
  <2> QED BY <1>2, <2>2 DEF StandsFor
<1>6. strtof(s).point \in Int /\ strtof(s).point <= MaxPoint /\ Flushed(strtof(s)) = strtof(s)
  <2>1. v.point \in Int /\ v.point <= MaxPoint /\ TinyPoint <= v.point /\ TinyPoint \in Int
    BY TextAssumption DEF WritableFloat, Floats
  <2>2. Flushed(v) = v
    BY <2>1 DEF Flushed
  <2> QED BY <1>5, <2>1, <2>2
<1>7. PICK b \in {"decimal2", "any2"} : Path("init", s, b)
  BY <1>3
<1>8. scan_number(text, q + 1) = Token("value", <<"float", strtof(s)>>, q + Len(s) + 1)
  BY <1>3, <1>4, <1>6, <1>7, FloatEnds
<1> QED BY <1>3, <1>4, <1>5, <1>8

-----------------------------------------------------------------------------
(* The lexer reads what the serializer wrote.                                 *)

\* The lexer at a character that is not blank.
LEMMA ScanHere ==
  ASSUME NEW text \in Texts, NEW q \in Nat, get(text, q + 1) \notin Blank
  PROVE  skip_whitespace(text, q + 1) = q + 1
<1>1. PICK L \in Nat, i \in Nat : L = Len(text) /\ i = q + 1
  BY LenProperties DEF Texts
<1> DEFINE NotBlank(k) == get(text, k) \notin Blank /\ \A j \in i..(k - 1) : get(text, j) \in Blank
<1>2. i \in i..(i + L) /\ NotBlank(i)
  <2>1. \A j \in i..(i - 1) : FALSE
    OBVIOUS
  <2> QED BY <1>1, <2>1
<1>3. ASSUME NEW k \in i..(i + L), NotBlank(k) PROVE k = i
  <2>1. k > i => i \in i..(k - 1)
    BY <1>1
  <2> QED BY <1>1, <1>2, <1>3, <2>1
<1>4. skip_whitespace(text, i) = CHOOSE k \in i..(i + L) : NotBlank(k)
  BY <1>1 DEF skip_whitespace
<1> HIDE DEF NotBlank
<1>5. skip_whitespace(text, i) = i
  BY <1>2, <1>3, <1>4
<1> QED BY <1>1, <1>5

\* What scan gives where there is no blank, by the first character.
LEMMA ScanCases ==
  ASSUME NEW text \in Texts, NEW q \in Nat, NEW c, c = get(text, q + 1), c \notin Blank, c # "BOM"
  PROVE  /\ c \in Structural => scan(text, q + 1) = Token(c, <<"null", 0>>, q + 2)
         /\ c \in {"t", "f"} => scan(text, q + 1) = Token("value", <<"bool", c = "t">>, q + 2)
         /\ c = "n" => scan(text, q + 1) = Token("value", <<"null", 0>>, q + 2)
         /\ c = QUOTE => scan(text, q + 1) = scan_string(text, q + 2)
         /\ c \in Digits \cup {"-"} => scan(text, q + 1) = scan_number(text, q + 1)
         /\ c = EOF => scan(text, q + 1).t = "end_of_input"
<1>1. PICK i \in Nat : i = q + 1 /\ i + 1 = q + 2
  OBVIOUS
<1>2. skip_whitespace(text, skip_bom(text, i)) = i
  <2>1. skip_whitespace(text, i) = i
    BY <1>1, ScanHere
  <2>2. skip_bom(text, i) = i
    BY <1>1, SkipBom
  <2> QED BY <2>1, <2>2
<1>3. /\ \A x \in Structural : x \notin {"t", "f", "n", QUOTE, EOF, "NUL", "-"} /\ x \notin Digits
      /\ \A x \in Digits \cup {"-"} : x \notin {"t", "f", "n", QUOTE, EOF, "NUL"}
      /\ QUOTE \notin {"t", "f", "n", EOF, "NUL"} /\ {EOF, "NUL"} \cap {"t", "f", "n"} = {}
  BY DigitsFact DEF Structural, QUOTE, EOF
<1>4. scan(text, i) =
          CASE c \in Structural       -> Token(c, <<"null", 0>>, i + 1)
          [] c \in {"t", "f"}       -> Token("value", <<"bool", c = "t">>, i + 1)
          [] c = "n"                -> Token("value", <<"null", 0>>, i + 1)
          [] c = QUOTE              -> scan_string(text, i + 1)
          [] c \in Digits \cup {"-"} -> scan_number(text, i)
          [] c \in {EOF, "NUL"}     -> Token("end_of_input", <<"null", 0>>, i + 1)
          [] OTHER                  -> ParseError(i)
  BY <1>1, <1>2 DEF scan
<1>5. c \in Structural => scan(text, i) = Token(c, <<"null", 0>>, i + 1)
  BY <1>3, <1>4
<1>6. c \in {"t", "f"} => scan(text, i) = Token("value", <<"bool", c = "t">>, i + 1)
  BY <1>3, <1>4
<1>7. c = "n" => scan(text, i) = Token("value", <<"null", 0>>, i + 1)
  BY <1>3, <1>4
<1>8. c = QUOTE => scan(text, i) = scan_string(text, i + 1)
  BY <1>3, <1>4
<1>9. c \in Digits \cup {"-"} => scan(text, i) = scan_number(text, i)
  BY <1>3, <1>4
<1>10. c = EOF => scan(text, i) = Token("end_of_input", <<"null", 0>>, i + 1)
  BY <1>3, <1>4
<1>11. c = EOF => scan(text, i).t = "end_of_input"
  BY <1>10 DEF Token
<1> QED BY <1>1, <1>5, <1>6, <1>7, <1>8, <1>9, <1>11

\* A single character of structure or of a literal.
LEMMA ScanCharacter ==
  ASSUME NEW text \in Texts, NEW q \in Nat, NEW c \in Literals, c # "LF", NEW t \in Texts,
         Left(text, q, <<c>> \o t)
  PROVE  /\ get(text, q + 1) = c /\ c \notin Blank /\ Left(text, q + 1, t) /\ q + 1 \in Nat
         /\ c \in Structural => scan(text, q + 1) = Token(c, <<"null", 0>>, q + 2)
         /\ c \in {"t", "f"} => scan(text, q + 1) = Token("value", <<"bool", c = "t">>, q + 2)
         /\ c = "n" => scan(text, q + 1) = Token("value", <<"null", 0>>, q + 2)
<1>1. c \in Character
  BY DEF Character
<1>2. get(text, q + 1) = c /\ Left(text, q + 1, t)
  BY <1>1, LeftOne
<1>3. c \notin Blank /\ c # "BOM"
  BY DEF Blank, Literals
<1> QED BY <1>2, <1>3, ScanCases

\* A string in its quotes.
LEMMA ScanQuoted ==
  ASSUME NEW text \in Texts, NEW q \in Nat, NEW s \in Texts, \A j \in 1..Len(s) : s[j] \notin {EOF, "NUL"},
         NEW t \in Texts, Left(text, q, quoted(s) \o t)
  PROVE  scan(text, q + 1) = Token("value", <<"str", s>>, q + Len(quoted(s)) + 1)
<1>1. PICK o \in Texts, e \in Texts : o = <<QUOTE>> /\ Len(o) = 1 /\ o[1] = QUOTE /\ e = dump_escaped(s)
  <2>1. QUOTE \in Character
    BY DEF Character, Literals, QUOTE
  <2>2. <<QUOTE>> \in Texts /\ Len(<<QUOTE>>) = 1 /\ <<QUOTE>>[1] = QUOTE
    BY <2>1, OneCharacter
  <2> QED BY <2>2, EscapedType
<1>2. PICK u \in Texts : u = e \o (o \o t)
  <2>1. o \o t \in Texts
    BY Joined
  <2> QED BY <2>1, Joined
<1>3. quoted(s) \o t = o \o u
  <2>1. ((o \o e) \o o) \o t = o \o (e \o (o \o t))
    <3>1. AssociatesThrice(o, e, o, t)
      BY JoinedThrice
    <3> QED BY <3>1 DEF AssociatesThrice
  <2>2. quoted(s) = (o \o e) \o o
    BY <1>1 DEF quoted
  <2> QED BY <1>2, <2>1, <2>2
<1>4. QUOTE \in Literals /\ QUOTE # "LF"
  BY DEF Literals, QUOTE
<1>5. Left(text, q, <<QUOTE>> \o u)
  BY <1>1, <1>3
<1>6. get(text, q + 1) = QUOTE /\ QUOTE \notin Blank /\ Left(text, q + 1, u) /\ q + 1 \in Nat
  BY <1>4, <1>5, ScanCharacter
<1>7. scan(text, q + 1) = scan_string(text, q + 2)
  <2>1. QUOTE # "BOM"
    BY DEF QUOTE
  <2> QED BY <1>6, <2>1, ScanCases
<1>8. PICK p \in Nat : p = q + 1 /\ p + 1 = q + 2
  OBVIOUS
<1>9. scan_string(text, p + 1) = Token("value", <<"str", s>>, p + Len(dump_escaped(s)) + 2)
  <2>1. Left(text, p, dump_escaped(s) \o (<<QUOTE>> \o t))
    BY <1>1, <1>2, <1>6, <1>8
  <2> QED BY <2>1, StringBack
<1>10. p + Len(dump_escaped(s)) + 2 = q + Len(quoted(s)) + 1
  <2>1. PICK n \in Nat : n = Len(e)
    BY LenProperties DEF Texts
  <2>2. PICK oe \in Texts : oe = o \o e
    BY Joined
  <2>3. Len(oe) = 1 + n
    BY <1>1, <2>1, <2>2, ConcatProperties DEF Texts
  <2>4. Len(oe \o o) = (1 + n) + 1
    BY <1>1, <2>3, ConcatProperties DEF Texts
  <2>5. Len(quoted(s)) = n + 2
    BY <1>1, <2>2, <2>4 DEF quoted
  <2> QED BY <1>1, <1>8, <2>1, <2>5
<1> QED BY <1>7, <1>8, <1>9, <1>10

\* A number: it begins with a digit or a minus.
LEMMA ScanNumber ==
  ASSUME NEW text \in Texts, NEW q \in Nat, NEW s \in Texts, s # <<>>, s[1] \in Digits \cup {"-"},
         NEW t \in Texts, Left(text, q, s \o t)
  PROVE  scan(text, q + 1) = scan_number(text, q + 1)
<1>1. PICK m \in Nat : m = Len(s) /\ m # 0
  BY LenProperties, EmptySeq DEF Texts
<1>2. q + Len(s) <= Len(text) /\ \A j \in 1..Len(s) : text[q + j] = s[j]
  BY LeftJoined
<1>3. 1 \in 1..m /\ q + 1 <= Len(text)
  <2>1. Len(text) \in Nat
    BY LenProperties DEF Texts
  <2> QED BY <1>1, <1>2, <2>1
<1>4. text[q + 1] = s[1]
  BY <1>1, <1>2, <1>3
<1>5. s[1] \notin Blank /\ s[1] # "BOM"
  BY DigitsFact DEF Blank
<1>6. get(text, q + 1) = s[1]
  BY <1>3, <1>4 DEF get
<1> QED BY <1>5, <1>6, ScanCases

\* What a scalar is written as.
LEMMA ScalarText ==
  ASSUME NEW S, NEW r, Nested(S, r), NEW w, Writes(S, w), NEW x \in S, NEW s \in Texts,
         Pieces(x) = <<Text(s)>>
  PROVE  w[x] = s
<1>1. w \in [S -> Texts] /\ w[x] = TextOf(w, <<Text(s)>>)
  BY DEF Writes
<1>2. Text(s) \in TextPieces /\ Text(s)[2] = s
  BY DEF TextPieces, Text
<1>3. Text(s) \in S \cup TextPieces
  BY <1>2
<1>4. TextOf(w, <<Text(s)>>) = Spelt(w, Text(s))
  BY <1>1, <1>3, TextOfOne
<1> QED BY <1>1, <1>2, <1>4 DEF Spelt

\* Nothing in s ends the input.
NoEnd(s) == \A j \in 1..Len(s) : s[j] \notin {EOF, "NUL"}

\* The scalars that can be read as they were written: an integer of 64 bits, no end
\* of the text in a string.
WritableInt(n) == n \in Int /\ -LongHalf <= n /\ n < 2 * LongHalf

\* The scalars that dump writes so that the lexer can read them back.
Writable(x) == \/ x = <<"null", 0>>
               \/ x \in {"bool"} \X BOOLEAN
               \/ \E n : WritableInt(n) /\ x = <<"int", n>>
               \/ \E f : WritableFloat(f) /\ x = <<"float", f>>
               \/ \E s \in Texts : NoEnd(s) /\ x = <<"str", s>>

\* The token of a scalar: the scalar, and the lexer behind it.
LEMMA ScanScalar ==
  ASSUME NEW S, NEW r, Nested(S, r), NEW w, Writes(S, w), NEW x \in S, Writable(x),
         NEW text \in Texts, NEW q \in Nat, NEW t \in Texts, Left(text, q, w[x] \o t),
         get(t, 1) \in Follow
  PROVE  scan(text, q + 1) = Token("value", x, q + Len(w[x]) + 1)
<1>1. ASSUME NEW c \in {"t", "f", "n"}, w[x] = <<c>>
      PROVE  /\ c = "n" => scan(text, q + 1) = Token("value", <<"null", 0>>, q + 2)
             /\ c # "n" => scan(text, q + 1) = Token("value", <<"bool", c = "t">>, q + 2)
             /\ q + Len(w[x]) + 1 = q + 2
  <2>1. c \in Literals /\ c # "LF"
    BY DEF Literals
  <2>2. /\ c \in {"t", "f"} => scan(text, q + 1) = Token("value", <<"bool", c = "t">>, q + 2)
        /\ c = "n" => scan(text, q + 1) = Token("value", <<"null", 0>>, q + 2)
    BY <1>1, <2>1, ScanCharacter
  <2>3. Len(<<c>>) = 1
    OBVIOUS
  <2> QED BY <1>1, <2>2, <2>3
<1>2. CASE x = <<"null", 0>>
  <2>1. <<"n">> \in Texts
    BY LiteralTexts DEF Literals
  <2>2. Pieces(x) = <<Text(<<"n">>)>>
    BY <1>2 DEF Pieces
  <2>3. w[x] = <<"n">>
    BY <2>1, <2>2, ScalarText
  <2> QED BY <1>1, <1>2, <2>3
<1>3. CASE x \in {"bool"} \X BOOLEAN
  <2>1. PICK b \in BOOLEAN : x = <<"bool", b>>
    BY <1>3
  <2>2. PICK c \in {"t", "f"} : c = IF b THEN "t" ELSE "f"
    OBVIOUS
  <2>3. <<c>> \in Texts
    BY LiteralTexts DEF Literals
  <2>4. Pieces(x) = <<Text(<<c>>)>>
    BY <2>1, <2>2 DEF Pieces
  <2>5. w[x] = <<c>>
    BY <2>3, <2>4, ScalarText
  <2>6. c # "n" /\ (c = "t") = b
    BY <2>2
  <2> QED BY <1>1, <2>1, <2>5, <2>6
<1>4. ASSUME NEW n, WritableInt(n), x = <<"int", n>>
      PROVE  scan(text, q + 1) = Token("value", x, q + Len(w[x]) + 1)
  <2>1. n \in Int /\ -LongHalf <= n /\ n < 2 * LongHalf
    BY <1>4 DEF WritableInt
  <2>2. PICK s \in Texts : s = dump_integer(n) /\ s # <<>> /\ s[1] \in Digits \cup {"-"}
    BY <2>1, IntegerText
  <2>3. Pieces(x) = <<Text(s)>>
    BY <1>4, <2>2 DEF Pieces
  <2>4. w[x] = s
    BY <2>3, ScalarText
  <2>5. scan_number(text, q + 1) = Token("value", <<"int", n>>, q + Len(dump_integer(n)) + 1)
    BY <2>1, <2>2, <2>4, IntegerBack
  <2>6. scan(text, q + 1) = scan_number(text, q + 1)
    BY <2>2, <2>4, ScanNumber
  <2> QED BY <1>4, <2>2, <2>4, <2>5, <2>6
<1>5. ASSUME NEW f, WritableFloat(f), x = <<"float", f>>
      PROVE  scan(text, q + 1) = Token("value", x, q + Len(w[x]) + 1)
  <2>1. PICK s \in Texts : s = dump_float(f)
    BY <1>5, DumpFloatType DEF WritableFloat
  <2>2. Pieces(x) = <<Text(s)>>
    BY <1>5, <2>1 DEF Pieces
  <2>3. w[x] = s
    BY <2>2, ScalarText
  <2>4. /\ s # <<>> /\ s[1] \in Digits \cup {"-"}
        /\ scan_number(text, q + 1) = Token("value", <<"float", f>>, q + Len(s) + 1)
    <3>1. WritableFloat(f) /\ Left(text, q, s \o t)
      BY <1>5, <2>3
    <3> QED BY <2>1, <3>1, FloatBack
  <2>5. scan(text, q + 1) = scan_number(text, q + 1)
    BY <2>3, <2>4, ScanNumber
  <2> QED BY <1>5, <2>3, <2>4, <2>5
<1>6. ASSUME NEW s \in Texts, NoEnd(s), x = <<"str", s>>
      PROVE  scan(text, q + 1) = Token("value", x, q + Len(w[x]) + 1)
  <2>1. PICK y \in Texts : y = quoted(s)
    BY QuotedType
  <2>2. Pieces(x) = <<Text(y)>>
    BY <1>6, <2>1 DEF Pieces
  <2>3. w[x] = quoted(s)
    BY <2>1, <2>2, ScalarText
  <2>4. \A j \in 1..Len(s) : s[j] \notin {EOF, "NUL"}
    BY <1>6 DEF NoEnd
  <2> QED BY <1>6, <2>3, <2>4, ScanQuoted
<1> QED BY <1>2, <1>3, <1>4, <1>5, <1>6 DEF Writable
=============================================================================
