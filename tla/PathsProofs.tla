----------------------------- MODULE PathsProofs -----------------------------
(***************************************************************************)
(* Proofs about Paths, for texts, trees and indices of any size: what      *)
(* formatTraversed writes is read back by parsePath as the same segments,  *)
(* a path read and extended by a key or an index is the same path extended *)
(* by that segment, and the path an error of navigate names leads to the   *)
(* same error.                                                             *)
(***************************************************************************)
EXTENDS Paths, RecursionProofs, SequenceTheorems

PlainKey == {k \in Seq(Token) : IsPlainKey(k)}
Segment == [index : 0 .. MaxIndex] \cup [key : PlainKey]

-----------------------------------------------------------------------------
(* Positions.                                                              *)

\* The first occurrence of a token.
LEMMA IndexFromFacts ==
  ASSUME NEW s \in Seq(Token), NEW i \in Nat \ {0}, NEW token
  PROVE  \/ IndexFrom(s, i, token) = 0 /\ \A j \in i .. Len(s) : s[j] # token
         \/ /\ IndexFrom(s, i, token) \in i .. Len(s)
            /\ s[IndexFrom(s, i, token)] = token
            /\ \A j \in i .. IndexFrom(s, i, token) - 1 : s[j] # token
<1>. DEFINE I == {j \in i .. Len(s) : s[j] = token}
<1>1. IndexFrom(s, i, token) = IF I # {} THEN Min(I) ELSE 0
  BY DEF IndexFrom, SelectInSubSeq
<1>2. CASE I = {}
  BY <1>1, <1>2
<1>3. CASE I # {}
  <2>1. I \subseteq Nat
    OBVIOUS
  <2>2. Min(I) \in I /\ \A y \in I : Min(I) <= y
    <3>. HIDE DEF I
    <3>. QED
      BY <1>3, <2>1, SmallestNumber DEF Min
  <2>3. IndexFrom(s, i, token) = Min(I)
    BY <1>1, <1>3
  <2>. DEFINE first == Min(I)
  <2>4. first \in i .. Len(s) /\ s[first] = token
    BY <2>2
  <2>5. ASSUME NEW j \in i .. first - 1 PROVE s[j] # token
    BY <2>2, <2>4
  <2>. QED
    BY <2>3, <2>4, <2>5
<1>. QED
  BY <1>2, <1>3

\* A key runs up to the next separator.
LEMMA KeyEndFacts ==
  ASSUME NEW s \in Seq(Token), NEW i \in 1 .. Len(s), s[i] \notin {".", "["}
  PROVE  /\ KeyEnd(s, i) \in i .. Len(s)
         /\ \A j \in i .. KeyEnd(s, i) : s[j] \notin {".", "["}
         /\ KeyEnd(s, i) < Len(s) => s[KeyEnd(s, i) + 1] \in {".", "["}
<1>. DEFINE stops == {j \in i .. Len(s) : s[j] \in {".", "["}}
<1>1. KeyEnd(s, i) = IF stops = {} THEN Len(s) ELSE Min(stops) - 1
  BY DEF KeyEnd
<1>2. CASE stops = {}
  BY <1>1, <1>2
<1>3. CASE stops # {}
  <2>1. stops \subseteq Nat
    OBVIOUS
  <2>2. Min(stops) \in stops /\ \A y \in stops : Min(stops) <= y
    <3>. HIDE DEF stops
    <3>. QED
      BY <1>3, <2>1, SmallestNumber DEF Min
  <2>3. KeyEnd(s, i) = Min(stops) - 1
    BY <1>1, <1>3
  <2>. DEFINE first == Min(stops)
  <2>4. first \in i .. Len(s) /\ s[first] \in {".", "["} /\ first # i
    BY <2>2
  <2>5. ASSUME NEW j \in i .. first - 1 PROVE s[j] \notin {".", "["}
    BY <2>2, <2>4
  <2>. QED
    BY <2>3, <2>4, <2>5
<1>. QED
  BY <1>2, <1>3

-----------------------------------------------------------------------------
(* Numbers.                                                                *)

Number == Seq(DOMAIN Digit) \ {<<>>}

\* The values of the first digits of s.
IsValue(s, f) ==
  /\ f[0] = 0
  /\ \A n \in 1 .. Len(s) : f[n] = 10 * f[n - 1] + Digit[s[n]]

LEMMA AtoiDef ==
  ASSUME NEW s, Unsigned(s) \in Seq(DOMAIN Digit)
  PROVE  \E f \in [0 .. Len(Unsigned(s)) -> Nat] :
            IsValue(Unsigned(s), f) /\ Atoi(s) = f[Len(Unsigned(s))]
<1>. DEFINE u == Unsigned(s)
            D == 0 .. Len(u)
            Next(n, f) == IF n = 0 THEN 0 ELSE 10 * f[n - 1] + Digit[u[n]]
            Def(f) == f = [n \in D |-> Next(n, f)]
            m == [n \in D |-> n]
            Step == [n \in D |-> [f \in [D -> Nat] |-> Next(n, f)]]
<1>1. Len(u) \in Nat
  OBVIOUS
<1>2. ASSUME NEW n \in D, n # 0 PROVE n - 1 \in D /\ Digit[u[n]] \in Nat
  <2>1. n - 1 \in D /\ n \in 1 .. Len(u)
    BY <1>1, <1>2
  <2>2. u[n] \in DOMAIN Digit
    BY <2>1
  <2>3. Digit \in [DOMAIN Digit -> 0 .. 9]
    BY TokenAssumption
  <2>. HIDE DEF D, u
  <2>4. Digit[u[n]] \in 0 .. 9
    BY <2>2, <2>3
  <2>. QED
    BY <2>1, <2>4
<1>3. ASSUME NEW n \in D, NEW f \in [D -> Nat] PROVE Next(n, f) \in Nat
  <2>1. CASE n = 0
    BY <2>1
  <2>2. CASE n # 0
    <3>1. f[n - 1] \in Nat /\ Digit[u[n]] \in Nat
      BY <1>2, <2>2
    <3>. QED
      BY <2>2, <3>1
  <2>. QED
    BY <2>1, <2>2
<1>4. \E f \in [D -> Nat] : \A n \in D : f[n] = Step[n][f]
  <2>1. IsRecursion(D, Nat, m, Step)
    <3>1. m \in [D -> Nat] /\ \A n \in D : m[n] <= Len(u)
      BY <1>1
    <3>2. Step \in [D -> [[D -> Nat] -> Nat]]
      BY <1>3
    <3>3. ASSUME NEW n \in D, NEW f \in [D -> Nat], NEW g \in [D -> Nat],
                 \A y \in D : m[y] < m[n] => f[y] = g[y]
          PROVE  Step[n][f] = Step[n][g]
      <4>1. n # 0 => n - 1 \in D /\ f[n - 1] = g[n - 1]
        BY <3>3, <1>1
      <4>. QED
        BY <4>1
    <3>. HIDE DEF D, m, Step
    <3>. QED
      BY <1>1, <3>1, <3>2, <3>3 DEF IsRecursion
  <2>. HIDE DEF D, m, Step
  <2>. QED
    BY <2>1, Recursion
<1>5. PICK f \in [D -> Nat] : \A n \in D : f[n] = Next(n, f)
  BY <1>4
<1>6. Def(f)
  BY <1>5
<1>. DEFINE v == CHOOSE g : Def(g)
<1>7. Def(v)
  <2>. HIDE DEF Def
  <2>. QED
    BY <1>6
<1>8. Atoi(s) = v[Len(u)]
  BY DEF Atoi
<1>. HIDE DEF v
<1>9. \A n \in D : v[n] = Next(n, v)
  BY <1>7
<1>10. D \subseteq {n \in D : v[n] \in Nat}
  <2>. DEFINE S == {n \in D : v[n] \in Nat}
  <2>1. m \in [D -> Nat]
    OBVIOUS
  <2>2. ASSUME NEW n \in D, \A y \in D : m[y] < m[n] => y \in S PROVE n \in S
    <3>1. n # 0 => n - 1 \in D /\ v[n - 1] \in Nat
      BY <2>2, <1>1
    <3>2. v[n] = Next(n, v)
      BY <1>9
    <3>3. n # 0 => Digit[u[n]] \in Nat
      BY <1>2
    <3>4. Next(n, v) \in Nat
      BY <3>1, <3>3
    <3>. QED
      BY <3>2, <3>4
  <2>3. D \subseteq S
    <3>. HIDE DEF D, m, S
    <3>. QED
      BY <2>1, <2>2, MeasureInduction, Zenon
  <2>. QED
    BY <2>3
<1>11. v \in [D -> Nat]
  BY <1>7, <1>10
<1>12. IsValue(u, v)
  BY <1>9, <1>1 DEF IsValue
<1>. QED
  BY <1>8, <1>11, <1>12

\* Digits are no sign.
LEMMA UnsignedNumber ==
  ASSUME NEW s \in Number
  PROVE  Unsigned(s) = s /\ ~IsNegative(s) /\ s \in Seq(Token)
<1>1. s[1] \in DOMAIN Digit /\ DOMAIN Digit \subseteq Token \ {"+", "-"}
  BY TokenAssumption DEF Number, Marks
<1>2. s \in Seq(DOMAIN Digit) /\ DOMAIN Digit \subseteq Token
  BY <1>1 DEF Number
<1>3. s \in Seq(Token)
  BY <1>2
<1>. QED
  BY <1>1, <1>3 DEF Unsigned, IsNegative

\* The values of the prefixes are determined.
LEMMA ValueUnique ==
  ASSUME NEW s, NEW t, Len(s) \in Nat, Len(t) \in Nat, NEW n \in Nat, n <= Len(s), n <= Len(t),
         \A i \in 1 .. n : s[i] = t[i],
         NEW f, NEW g, IsValue(s, f), IsValue(t, g)
  PROVE  f[n] = g[n]
<1>. DEFINE S == {k \in Nat : k <= n => f[k] = g[k]}
<1>1. 0 \in S
  BY DEF IsValue
<1>2. ASSUME NEW k \in Nat, k \in S PROVE k + 1 \in S
  <2>. SUFFICES ASSUME k + 1 <= n PROVE f[k + 1] = g[k + 1]
    OBVIOUS
  <2>1. k + 1 \in 1 .. Len(s) /\ k + 1 \in 1 .. Len(t) /\ k + 1 \in 1 .. n /\ (k + 1) - 1 = k
    OBVIOUS
  <2>2. f[k + 1] = 10 * f[k] + Digit[s[k + 1]]
    BY <2>1 DEF IsValue
  <2>3. g[k + 1] = 10 * g[k] + Digit[t[k + 1]]
    BY <2>1 DEF IsValue
  <2>4. f[k] = g[k] /\ s[k + 1] = t[k + 1]
    BY <1>2, <2>1
  <2>. QED
    BY <2>2, <2>3, <2>4
<1>3. Nat \subseteq S
  <2>. HIDE DEF S
  <2>. QED
    BY <1>1, <1>2, NatSetInduction
<1>. QED
  BY <1>3

LEMMA AtoiAppend ==
  ASSUME NEW s \in Number, NEW d \in DOMAIN Digit
  PROVE  /\ Append(s, d) \in Number
         /\ Atoi(s) \in Nat
         /\ Atoi(Append(s, d)) = 10 * Atoi(s) + Digit[d]
<1>. DEFINE t == Append(s, d)
<1>1. s \in Seq(DOMAIN Digit) /\ t \in Seq(DOMAIN Digit) /\ t # <<>> /\ s # <<>>
  BY DEF Number
<1>2. t \in Number
  BY <1>1 DEF Number
<1>3. Unsigned(s) = s /\ Unsigned(t) = t
  BY <1>2, UnsignedNumber
<1>4. PICK f \in [0 .. Len(s) -> Nat] : IsValue(s, f) /\ Atoi(s) = f[Len(s)]
  BY <1>1, <1>3, AtoiDef
<1>5. PICK g \in [0 .. Len(t) -> Nat] : IsValue(t, g) /\ Atoi(t) = g[Len(t)]
  BY <1>1, <1>3, AtoiDef
<1>6. Len(t) = Len(s) + 1 /\ Len(s) \in Nat /\ t[Len(t)] = d
      /\ \A i \in 1 .. Len(s) : t[i] = s[i]
  BY <1>1
<1>. HIDE DEF t
<1>7. f[Len(s)] = g[Len(s)]
  BY <1>4, <1>5, <1>6, ValueUnique
<1>8. g[Len(t)] = 10 * g[Len(t) - 1] + Digit[t[Len(t)]]
  BY <1>5, <1>6 DEF IsValue
<1>9. f[Len(s)] \in Nat
  BY <1>6
<1>10. Len(t) - 1 = Len(s)
  BY <1>6
<1>11. Atoi(t) = 10 * Atoi(s) + Digit[d]
  BY <1>4, <1>5, <1>6, <1>7, <1>8, <1>10
<1>. QED
  BY <1>2, <1>4, <1>9, <1>11 DEF t

LEMMA AtoiDigit ==
  ASSUME NEW d \in DOMAIN Digit
  PROVE  <<d>> \in Number /\ Atoi(<<d>>) = Digit[d]
<1>1. <<d>> \in Seq(DOMAIN Digit) /\ <<d>> # <<>> /\ Len(<<d>>) = 1 /\ <<d>>[1] = d
  OBVIOUS
<1>2. <<d>> \in Number
  BY <1>1 DEF Number
<1>3. Unsigned(<<d>>) = <<d>>
  BY <1>2, UnsignedNumber
<1>4. PICK f \in [0 .. Len(<<d>>) -> Nat] :
         IsValue(<<d>>, f) /\ Atoi(<<d>>) = f[Len(<<d>>)]
  BY <1>1, <1>3, AtoiDef
<1>5. f[0] = 0 /\ f[1] = 10 * f[1 - 1] + Digit[d]
  BY <1>1, <1>4 DEF IsValue
<1>6. Digit[d] \in Nat
  BY TokenAssumption DEF Marks
<1>7. f[1] = Digit[d]
  BY <1>5, <1>6
<1>. QED
  BY <1>1, <1>2, <1>4, <1>7

\* A number is read as it is written, whatever its size.
LEMMA DecimalReadsBack ==
  ASSUME NEW number \in Nat
  PROVE  Decimal(number) \in Number /\ Atoi(Decimal(number)) = number
<1>. DEFINE D == 0 .. number
            last(n) == CHOOSE d \in DOMAIN Digit : Digit[d] = n % 10
            Next(n, f) == IF n < 10 THEN <<last(n)>> ELSE f[n \div 10] \o <<last(n)>>
            Def(f) == f = [n \in D |-> Next(n, f)]
            m == [n \in D |-> n]
            Step == [n \in D |-> [f \in [D -> Number] |-> Next(n, f)]]
<1>1. ASSUME NEW n \in D PROVE last(n) \in DOMAIN Digit /\ Digit[last(n)] = n % 10
  <2>1. n % 10 \in 0 .. 9
    OBVIOUS
  <2>2. \E d \in DOMAIN Digit : Digit[d] = n % 10
    BY <2>1, TokenAssumption
  <2>. QED
    BY <2>2
<1>. HIDE DEF last
<1>2. ASSUME NEW n \in D, ~(n < 10)
      PROVE  n \div 10 \in D /\ n \div 10 < n /\ n = 10 * (n \div 10) + (n % 10)
  BY <1>2
<1>3. ASSUME NEW n \in D, NEW f, n < 10 \/ f[n \div 10] \in Number
      PROVE  Next(n, f) \in Number
  <2>1. CASE n < 10
    BY <1>1, <2>1, AtoiDigit
  <2>2. CASE ~(n < 10)
    <3>1. f[n \div 10] \o <<last(n)>> = Append(f[n \div 10], last(n))
      BY <1>1, <1>3, <2>2 DEF Number
    <3>. QED
      BY <1>1, <1>3, <2>2, <3>1, AtoiAppend
  <2>. QED
    BY <2>1, <2>2
<1>4. IsRecursion(D, Number, m, Step)
  <2>1. m \in [D -> Nat] /\ \A n \in D : m[n] <= number
    OBVIOUS
  <2>2. Step \in [D -> [[D -> Number] -> Number]]
    BY <1>2, <1>3
  <2>3. ASSUME NEW n \in D, NEW f \in [D -> Number], NEW g \in [D -> Number],
               \A y \in D : m[y] < m[n] => f[y] = g[y]
        PROVE  Step[n][f] = Step[n][g]
    <3>1. ~(n < 10) => f[n \div 10] = g[n \div 10]
      BY <1>2, <2>3
    <3>. QED
      BY <3>1
  <2>4. Number # {}
    <3>1. 0 \in D /\ <<last(0)>> \in Number
      BY <1>1, AtoiDigit
    <3>. QED
      BY <3>1
  <2>. HIDE DEF D, m, Step
  <2>. QED
    BY <2>1, <2>2, <2>3, <2>4 DEF IsRecursion
<1>5. PICK f \in [D -> Number] : \A n \in D : f[n] = Next(n, f)
  <2>1. \E f \in [D -> Number] : \A n \in D : f[n] = Step[n][f]
    <3>. HIDE DEF D, m, Step
    <3>. QED
      BY <1>4, Recursion
  <2>. QED
    BY <2>1
<1>6. Def(f)
  BY <1>5
<1>. DEFINE v == CHOOSE g : Def(g)
<1>7. Def(v)
  <2>. HIDE DEF Def
  <2>. QED
    BY <1>6
<1>8. Decimal(number) = v[number]
  BY DEF Decimal, last
<1>. HIDE DEF v
<1>9. \A n \in D : v[n] = Next(n, v)
  BY <1>7
<1>. DEFINE S == {n \in D : v[n] \in Number /\ Atoi(v[n]) = n}
<1>10. ASSUME NEW n \in D, \A y \in D : m[y] < m[n] => y \in S PROVE n \in S
  <2>1. CASE n < 10
    <3>1. n % 10 = n
      BY <2>1
    <3>2. v[n] = <<last(n)>>
      BY <1>9, <2>1
    <3>. QED
      BY <1>1, <3>1, <3>2, AtoiDigit
  <2>2. CASE ~(n < 10)
    <3>1. v[n \div 10] \in Number /\ Atoi(v[n \div 10]) = n \div 10
      BY <1>2, <1>10, <2>2
    <3>2. v[n] = v[n \div 10] \o <<last(n)>>
      BY <1>9, <2>2
    <3>3. v[n] = Append(v[n \div 10], last(n))
      BY <1>1, <3>1, <3>2 DEF Number
    <3>4. Atoi(v[n]) = 10 * (n \div 10) + (n % 10)
      BY <1>1, <3>1, <3>3, AtoiAppend
    <3>. QED
      BY <1>1, <1>2, <2>2, <3>1, <3>3, <3>4, AtoiAppend
  <2>. QED
    BY <2>1, <2>2
<1>11. D \subseteq S
  <2>1. m \in [D -> Nat]
    OBVIOUS
  <2>. HIDE DEF D, m, S
  <2>. QED
    BY <1>10, <2>1, MeasureInduction, Zenon
<1>. QED
  BY <1>8, <1>11

-----------------------------------------------------------------------------
(* parsePath.                                                              *)

\* No parse, or one.
Parses == {{}} \cup {{p} : p \in Seq(Segment)}

LEMMA PrefixedParses ==
  ASSUME NEW segment \in Segment, NEW parses \in Parses
  PROVE  /\ Prefixed(segment, parses) \in Parses
         /\ \A p \in Prefixed(segment, parses) : p # <<>>
<1>1. CASE parses = {}
  BY <1>1 DEF Prefixed, Parses
<1>2. CASE parses # {}
  <2>1. PICK p \in Seq(Segment) : parses = {p}
    BY <1>2 DEF Parses
  <2>2. Prefixed(segment, parses) = {<<segment>> \o p}
    BY <2>1 DEF Prefixed
  <2>3. <<segment>> \o p \in Seq(Segment) /\ <<segment>> \o p # <<>>
    BY <2>1
  <2>. QED
    BY <2>2, <2>3 DEF Parses
<1>. QED
  BY <1>1, <1>2

\* The segments, and where the text after them begins.
LEMMA KeySegment ==
  ASSUME NEW s \in Seq(Token), NEW i \in 1 .. Len(s), s[i] \notin {".", "["}
  PROVE  SubSeq(s, i, KeyEnd(s, i)) \in PlainKey /\ Key(SubSeq(s, i, KeyEnd(s, i))) \in Segment
<1>. DEFINE e == KeyEnd(s, i)
            k == SubSeq(s, i, e)
<1>1. e \in i .. Len(s) /\ \A j \in i .. e : s[j] \notin {".", "["}
  BY KeyEndFacts
<1>. HIDE DEF e
<1>2. k \in Seq(Token) /\ Len(k) = e - i + 1 /\ \A j \in 1 .. Len(k) : k[j] = s[i + j - 1]
  BY <1>1
<1>3. k # <<>>
  BY <1>1, <1>2
<1>4. \A j \in 1 .. Len(k) : k[j] \notin {".", "["}
  <2>. SUFFICES ASSUME NEW j \in 1 .. Len(k) PROVE k[j] \notin {".", "["}
    OBVIOUS
  <2>1. i + j - 1 \in i .. e
    BY <1>1, <1>2
  <2>. QED
    BY <1>1, <1>2, <2>1
<1>5. Range(k) \cap {".", "["} = {}
  <2>1. DOMAIN k = 1 .. Len(k)
    BY <1>2
  <2>. HIDE DEF k
  <2>. QED
    BY <1>4, <2>1 DEF Range
<1>. QED
  BY <1>2, <1>3, <1>5 DEF PlainKey, IsPlainKey, Segment, Key, e

LEMMA IndexSegment ==
  ASSUME NEW s \in Seq(Token), NEW i \in 1 .. Len(s), IsIndexAt(s, i)
  PROVE  Index(Atoi(IndexAt(s, i))) \in Segment /\ IndexFrom(s, i, "]") \in i .. Len(s)
<1>1. IndexFrom(s, i, "]") \in i .. Len(s)
  BY IndexFromFacts DEF IsIndexAt
<1>. DEFINE d == IndexAt(s, i)
<1>2. d \in Seq(Token)
  BY <1>1 DEF IndexAt
<1>3. Unsigned(d) # <<>> /\ Range(Unsigned(d)) \subseteq DOMAIN Digit
  BY DEF IsIndexAt, IsArrayIndex, IsAtoi
<1>. HIDE DEF d
<1>4. Unsigned(d) \in Seq(Token)
  BY <1>2 DEF Unsigned
<1>5. Unsigned(d) \in Seq(DOMAIN Digit)
  <2>1. \A j \in 1 .. Len(Unsigned(d)) : Unsigned(d)[j] \in DOMAIN Digit
    BY <1>3, <1>4 DEF Range
  <2>. QED
    BY <1>4, <2>1
<1>6. Atoi(d) \in Nat
  BY <1>5, AtoiDef
<1>7. Atoi(d) <= MaxIndex
  BY DEF IsIndexAt, IsArrayIndex, d
<1>. QED
  BY <1>1, <1>6, <1>7, MaxIndexAssumption DEF Index, Segment, d

\* One turn of parsePath at position i, from what it finds further on.
Reads(s, from, i, separable) ==
  IF i > Len(s) THEN IF separable THEN {<<>>} ELSE {}
  ELSE IF s[i] = "." THEN IF separable THEN from[i + 1][FALSE] ELSE {}
  ELSE IF s[i] = "["
  THEN IF IsIndexAt(s, i)
       THEN Prefixed(Index(Atoi(IndexAt(s, i))), from[IndexFrom(s, i, "]") + 1][TRUE])
       ELSE {}
  ELSE Prefixed(Key(SubSeq(s, i, KeyEnd(s, i))), from[KeyEnd(s, i) + 1][TRUE])

Places(s) == 1 .. Len(s) + 1
IsParse(s, f) == \A i \in Places(s) : \A separable \in BOOLEAN :
                    f[i][separable] = Reads(s, f, i, separable)

\* A turn looks ahead only, ...
LEMMA ReadsAhead ==
  ASSUME NEW s \in Seq(Token), NEW i \in Places(s), NEW separable \in BOOLEAN, NEW f, NEW g,
         \A j \in Places(s) : j > i => f[j] = g[j]
  PROVE  Reads(s, f, i, separable) = Reads(s, g, i, separable)
<1>1. CASE i > Len(s)
  BY <1>1 DEF Reads
<1>2. CASE ~(i > Len(s)) /\ s[i] = "."
  <2>1. f[i + 1] = g[i + 1]
    BY <1>2 DEF Places
  <2>. QED
    BY <1>2, <2>1 DEF Reads
<1>3. CASE ~(i > Len(s)) /\ s[i] = "["
  <2>1. CASE ~IsIndexAt(s, i)
    BY <1>3, <2>1 DEF Reads
  <2>2. CASE IsIndexAt(s, i)
    <3>1. IndexFrom(s, i, "]") \in i .. Len(s)
      BY <1>3, <2>2, IndexSegment DEF Places
    <3>2. f[IndexFrom(s, i, "]") + 1] = g[IndexFrom(s, i, "]") + 1]
      BY <3>1 DEF Places
    <3>. QED
      BY <1>3, <2>2, <3>2 DEF Reads
  <2>. QED
    BY <2>1, <2>2
<1>4. CASE ~(i > Len(s)) /\ s[i] \notin {".", "["}
  <2>1. KeyEnd(s, i) \in i .. Len(s)
    BY <1>4, KeyEndFacts DEF Places
  <2>2. f[KeyEnd(s, i) + 1] = g[KeyEnd(s, i) + 1]
    BY <2>1 DEF Places
  <2>. QED
    BY <1>4, <2>2 DEF Reads
<1>. QED
  BY <1>1, <1>2, <1>3, <1>4

\* ... and finds at most one parse, as what it looks at does.
LEMMA ReadsOne ==
  ASSUME NEW s \in Seq(Token), NEW i \in Places(s), NEW separable \in BOOLEAN, NEW f,
         \A j \in Places(s) : j > i => f[j] \in [BOOLEAN -> Parses]
  PROVE  Reads(s, f, i, separable) \in Parses
<1>1. CASE i > Len(s)
  <2>1. <<>> \in Seq(Segment)
    OBVIOUS
  <2>2. {} \in Parses /\ {<<>>} \in Parses
    BY <2>1 DEF Parses
  <2>3. Reads(s, f, i, separable) \in {{}, {<<>>}}
    BY <1>1 DEF Reads
  <2>. QED
    BY <2>2, <2>3
<1>2. CASE ~(i > Len(s)) /\ s[i] = "."
  <2>1. f[i + 1] \in [BOOLEAN -> Parses] /\ {} \in Parses
    BY <1>2 DEF Places, Parses
  <2>2. f[i + 1][FALSE] \in Parses
    BY <2>1
  <2>. QED
    BY <1>2, <2>1, <2>2 DEF Reads
<1>3. CASE ~(i > Len(s)) /\ s[i] = "["
  <2>1. CASE ~IsIndexAt(s, i)
    BY <1>3, <2>1 DEF Reads, Parses
  <2>2. CASE IsIndexAt(s, i)
    <3>1. IndexFrom(s, i, "]") \in i .. Len(s) /\ Index(Atoi(IndexAt(s, i))) \in Segment
      BY <1>3, <2>2, IndexSegment DEF Places
    <3>2. f[IndexFrom(s, i, "]") + 1] \in [BOOLEAN -> Parses]
      BY <3>1 DEF Places
    <3>3. f[IndexFrom(s, i, "]") + 1][TRUE] \in Parses
      BY <3>2
    <3>. QED
      BY <1>3, <2>2, <3>1, <3>3, PrefixedParses DEF Reads
  <2>. QED
    BY <2>1, <2>2
<1>4. CASE ~(i > Len(s)) /\ s[i] \notin {".", "["}
  <2>1. KeyEnd(s, i) \in i .. Len(s) /\ Key(SubSeq(s, i, KeyEnd(s, i))) \in Segment
    BY <1>4, KeyEndFacts, KeySegment DEF Places
  <2>2. f[KeyEnd(s, i) + 1] \in [BOOLEAN -> Parses]
    BY <2>1 DEF Places
  <2>3. f[KeyEnd(s, i) + 1][TRUE] \in Parses
    BY <2>2
  <2>. QED
    BY <1>4, <2>1, <2>3, PrefixedParses DEF Reads
<1>. QED
  BY <1>1, <1>2, <1>3, <1>4

LEMMA ParsePathDef ==
  ASSUME NEW s \in Seq(Token)
  PROVE  \E f \in [Places(s) -> [BOOLEAN -> Parses]] :
            IsParse(s, f) /\ ParsePath(s) = f[1][FALSE]
<1>. DEFINE D == Places(s)
            Val == [BOOLEAN -> Parses]
            Next(i, f) == [separable \in BOOLEAN |-> Reads(s, f, i, separable)]
            Def(f) == f = [i \in D |-> Next(i, f)]
            m == [i \in D |-> Len(s) + 1 - i]
            Step == [i \in D |-> [f \in [D -> Val] |-> Next(i, f)]]
<1>1. Len(s) \in Nat
  OBVIOUS
<1>2. m \in [D -> Nat] /\ \A i \in D : m[i] <= Len(s)
  BY DEF Places
<1>3. \A i, j \in D : m[j] < m[i] <=> j > i
  BY DEF Places
<1>4. IsRecursion(D, Val, m, Step)
  <2>1. Step \in [D -> [[D -> Val] -> Val]]
    BY ReadsOne
  <2>2. ASSUME NEW i \in D, NEW f \in [D -> Val], NEW g \in [D -> Val],
               \A y \in D : m[y] < m[i] => f[y] = g[y]
        PROVE  Step[i][f] = Step[i][g]
    <3>1. \A j \in D : j > i => f[j] = g[j]
      BY <2>2, <1>3
    <3>2. \A separable \in BOOLEAN : Reads(s, f, i, separable) = Reads(s, g, i, separable)
      BY <3>1, ReadsAhead
    <3>. QED
      BY <3>2
  <2>3. Val # {}
    <3>1. [b \in BOOLEAN |-> {}] \in Val
      BY DEF Parses
    <3>. QED
      BY <3>1
  <2>. HIDE DEF D, m, Step, Val
  <2>. QED
    BY <1>1, <1>2, <2>1, <2>2, <2>3 DEF IsRecursion
<1>5. PICK f \in [D -> Val] : \A i \in D : f[i] = Next(i, f)
  <2>1. \E f \in [D -> Val] : \A i \in D : f[i] = Step[i][f]
    <3>. HIDE DEF D, m, Step, Val
    <3>. QED
      BY <1>4, Recursion
  <2>. QED
    BY <2>1
<1>6. Def(f)
  BY <1>5
<1>. DEFINE v == CHOOSE g : Def(g)
<1>7. Def(v)
  <2>. HIDE DEF Def
  <2>. QED
    BY <1>6
<1>8. ParsePath(s) = v[1][FALSE]
  BY DEF ParsePath, Places, Reads
<1>. HIDE DEF v
<1>9. \A i \in D : v[i] = Next(i, v)
  BY <1>7
<1>. DEFINE S == {i \in D : v[i] \in Val}
<1>10. ASSUME NEW i \in D, \A y \in D : m[y] < m[i] => y \in S PROVE i \in S
  <2>1. \A j \in D : j > i => v[j] \in Val
    BY <1>3, <1>10
  <2>2. \A separable \in BOOLEAN : Reads(s, v, i, separable) \in Parses
    BY <2>1, ReadsOne
  <2>3. v[i] = Next(i, v)
    BY <1>9
  <2>4. v[i] \in Val
    <3>1. Next(i, v) \in Val
      BY <2>2
    <3>. QED
      BY <2>3, <3>1, Zenon
  <2>. QED
    BY <2>4
<1>11. D \subseteq S
  <2>. HIDE DEF D, m, S
  <2>. QED
    BY <1>2, <1>10, MeasureInduction, Zenon
<1>12. v \in [D -> Val]
  BY <1>7, <1>11
<1>13. IsParse(s, v)
  BY <1>9 DEF IsParse
<1>. QED
  BY <1>8, <1>12, <1>13

-----------------------------------------------------------------------------
(* A path extended by one segment.                                         *)

LEMMA TailElements ==
  ASSUME NEW s \in Seq(Token), NEW i \in 1 .. Len(s), NEW t, SubSeq(s, i, Len(s)) = t
  PROVE  Len(t) = Len(s) - i + 1 /\ \A j \in i .. Len(s) : s[j] = t[j - i + 1]
<1>. DEFINE n == Len(s)
<1>1. n \in Nat /\ i \in 1 .. n /\ \A j \in i .. n : s[j] \in Token
  OBVIOUS
<1>. HIDE DEF n
<1>2. SubSeq(s, i, n) = t
  BY DEF n
<1>3. Len(t) = n - i + 1 /\ \A j \in 1 .. n - i + 1 : t[j] = s[i + j - 1]
  BY <1>1, <1>2, SubSeqProperties
<1>. QED
  BY <1>1, <1>3 DEF n

\* The end of a path.
LEMMA AtTheEnd ==
  ASSUME NEW s \in Seq(Token), NEW f, IsParse(s, f)
  PROVE  f[Len(s) + 1][TRUE] = {<<>>} /\ f[Len(s) + 1][FALSE] = {}
<1>1. Len(s) + 1 \in Places(s) /\ Len(s) + 1 > Len(s)
  BY DEF Places
<1>2. \A separable \in BOOLEAN :
         f[Len(s) + 1][separable] = Reads(s, f, Len(s) + 1, separable)
  BY <1>1 DEF IsParse
<1>3. Reads(s, f, Len(s) + 1, TRUE) = {<<>>} /\ Reads(s, f, Len(s) + 1, FALSE) = {}
  BY <1>1 DEF Reads
<1>. QED
  BY <1>2, <1>3

\* A text that ends in another from position i on, and what is read there.
EndsIn(s, i, end) == i \in 1 .. Len(s) /\ SubSeq(s, i, Len(s)) = end
IsReadAs(f, i, segment) == \A separable \in BOOLEAN : f[i][separable] = {<<segment>>}

LEMMA KeyAtEnd ==
  ASSUME NEW s \in Seq(Token), NEW i, NEW k \in PlainKey, EndsIn(s, i, k),
         NEW f, IsParse(s, f)
  PROVE  IsReadAs(f, i, Key(k))
<1>. SUFFICES ASSUME NEW separable \in BOOLEAN PROVE f[i][separable] = {<<Key(k)>>}
  BY DEF IsReadAs
<1>. USE DEF EndsIn
<1>1. \A j \in i .. Len(s) : s[j] \notin {".", "["}
  <2>. SUFFICES ASSUME NEW j \in i .. Len(s) PROVE s[j] \notin {".", "["}
    OBVIOUS
  <2>1. s[j] = k[j - i + 1] /\ Len(k) = Len(s) - i + 1
    BY TailElements
  <2>2. j - i + 1 \in DOMAIN k
    BY <2>1 DEF PlainKey
  <2>. QED
    BY <2>1, <2>2 DEF PlainKey, IsPlainKey, Range
<1>2. KeyEnd(s, i) = Len(s)
  <2>1. KeyEnd(s, i) \in i .. Len(s)
        /\ (KeyEnd(s, i) < Len(s) => s[KeyEnd(s, i) + 1] \in {".", "["})
    BY <1>1, KeyEndFacts
  <2>. QED
    BY <1>1, <2>1
<1>3. f[i][separable] = Reads(s, f, i, separable)
  BY DEF IsParse, Places
<1>4. f[i][separable] = Prefixed(Key(k), {<<>>})
  <2>1. f[Len(s) + 1][TRUE] = {<<>>}
    BY AtTheEnd
  <2>2. ~(i > Len(s)) /\ s[i] # "." /\ s[i] # "["
    BY <1>1
  <2>3. Reads(s, f, i, separable) = Prefixed(Key(k), f[Len(s) + 1][TRUE])
    BY <1>2, <2>2, Zenon DEF Reads
  <2>. QED
    BY <1>3, <2>1, <2>3
<1>. QED
  BY <1>4 DEF Prefixed

Bracketed(n) == <<"[">> \o Decimal(n) \o <<"]">>

LEMMA BracketedFacts ==
  ASSUME NEW n \in Nat
  PROVE  /\ Bracketed(n) \in Seq(Token)
         /\ Len(Bracketed(n)) = Len(Decimal(n)) + 2
         /\ Bracketed(n)[1] = "["
         /\ Bracketed(n)[Len(Bracketed(n))] = "]"
         /\ \A j \in 1 .. Len(Decimal(n)) : Bracketed(n)[j + 1] = Decimal(n)[j]
         /\ \A j \in 1 .. Len(Bracketed(n)) - 1 : Bracketed(n)[j] # "]"
<1>1. Decimal(n) \in Seq(Token) /\ Decimal(n) \in Seq(DOMAIN Digit)
  BY DecimalReadsBack, UnsignedNumber DEF Number
<1>. DEFINE d == Decimal(n)
            b == Bracketed(n)
<1>. HIDE DEF d
<1>2. b = <<"[">> \o d \o <<"]">>
  BY DEF Bracketed, d
<1>. HIDE DEF b
<1>3. d \in Seq(Token) /\ d \in Seq(DOMAIN Digit)
  BY <1>1 DEF d
<1>. DEFINE open == <<"[">>
            close == <<"]">>
<1>3a. open \in Seq(Token) /\ close \in Seq(Token) /\ Len(open) = 1 /\ Len(close) = 1
       /\ open[1] = "[" /\ close[1] = "]"
  <2>1. "[" \in Token /\ "]" \in Token
    BY TokenAssumption DEF Marks
  <2>. QED
    BY <2>1
<1>. HIDE DEF open, close
<1>3b. /\ open \o d \in Seq(Token) /\ Len(open \o d) = Len(d) + 1
       /\ \A j \in 1 .. Len(d) + 1 : (open \o d)[j] = IF j = 1 THEN "[" ELSE d[j - 1]
  BY <1>3, <1>3a, ConcatProperties
<1>3c. b = (open \o d) \o close
  BY <1>2 DEF open, close
<1>3d. /\ b \in Seq(Token) /\ Len(b) = Len(d) + 2
       /\ \A j \in 1 .. Len(d) + 2 :
            b[j] = IF j <= Len(d) + 1 THEN (open \o d)[j] ELSE close[j - (Len(d) + 1)]
  BY <1>3, <1>3a, <1>3b, <1>3c, ConcatProperties
<1>4. b \in Seq(Token) /\ Len(b) = Len(d) + 2 /\ b[1] = "[" /\ b[Len(b)] = "]"
  BY <1>3, <1>3a, <1>3b, <1>3d
<1>5. \A j \in 1 .. Len(d) : b[j + 1] = d[j]
  BY <1>3, <1>3b, <1>3d
<1>6. \A j \in 1 .. Len(b) - 1 : b[j] # "]"
  <2>. SUFFICES ASSUME NEW j \in 1 .. Len(b) - 1 PROVE b[j] # "]"
    OBVIOUS
  <2>1. CASE j = 1
    BY <1>4, <2>1
  <2>2. CASE j # 1
    <3>1. j - 1 \in 1 .. Len(d) /\ (j - 1) + 1 = j
      BY <1>3, <1>4, <2>2
    <3>2. b[j] = d[j - 1] /\ d[j - 1] \in DOMAIN Digit
      BY <1>3, <1>5, <3>1
    <3>. QED
      BY <3>2, TokenAssumption DEF Marks
  <2>. QED
    BY <2>1, <2>2
<1>. QED
  BY <1>4, <1>5, <1>6 DEF b, d

LEMMA IndexAtEnd ==
  ASSUME NEW s \in Seq(Token), NEW i, NEW n \in Nat, n <= MaxIndex,
         EndsIn(s, i, Bracketed(n)),
         NEW f, IsParse(s, f)
  PROVE  IsReadAs(f, i, Index(n))
<1>. SUFFICES ASSUME NEW separable \in BOOLEAN PROVE f[i][separable] = {<<Index(n)>>}
  BY DEF IsReadAs
<1>. USE DEF EndsIn
<1>. DEFINE b == Bracketed(n)
            d == Decimal(n)
<1>1. d \in Number /\ Atoi(d) = n /\ d \in Seq(Token) /\ ~IsNegative(d) /\ Unsigned(d) = d
  BY DecimalReadsBack, UnsignedNumber
<1>2. Len(b) = Len(s) - i + 1 /\ \A j \in i .. Len(s) : s[j] = b[j - i + 1]
  BY TailElements
<1>3. /\ b \in Seq(Token) /\ Len(b) = Len(d) + 2 /\ b[1] = "[" /\ b[Len(b)] = "]"
      /\ \A j \in 1 .. Len(d) : b[j + 1] = d[j]
      /\ \A j \in 1 .. Len(b) - 1 : b[j] # "]"
  BY BracketedFacts
<1>. HIDE DEF b, d
<1>4. s[i] = "[" /\ s[Len(s)] = "]"
  BY <1>2, <1>3
<1>5. \A j \in i .. Len(s) - 1 : s[j] # "]"
  <2>. SUFFICES ASSUME NEW j \in i .. Len(s) - 1 PROVE s[j] # "]"
    OBVIOUS
  <2>1. j - i + 1 \in 1 .. Len(b) - 1
    BY <1>2
  <2>2. j \in i .. Len(s) /\ s[j] = b[j - i + 1]
    BY <1>2
  <2>3. b[j - i + 1] # "]"
    BY <1>3, <2>1
  <2>. QED
    BY <2>2, <2>3
<1>6. IndexFrom(s, i, "]") = Len(s)
  <2>1. \/ IndexFrom(s, i, "]") = 0 /\ \A j \in i .. Len(s) : s[j] # "]"
        \/ /\ IndexFrom(s, i, "]") \in i .. Len(s)
           /\ s[IndexFrom(s, i, "]")] = "]"
    BY IndexFromFacts
  <2>. QED
    BY <1>4, <1>5, <2>1
<1>7. IndexAt(s, i) = d
  <2>1. IndexAt(s, i) = SubSeq(s, i + 1, Len(s) - 1)
    BY <1>6 DEF IndexAt
  <2>. DEFINE e == SubSeq(s, i + 1, Len(s) - 1)
  <2>2. e \in Seq(Token) /\ Len(e) = Len(d) /\ \A j \in 1 .. Len(d) : e[j] = s[i + j]
    <3>1. \A j \in i + 1 .. Len(s) - 1 : s[j] \in Token
      OBVIOUS
    <3>2. /\ e \in Seq(Token)
          /\ Len(e) = IF i + 1 <= Len(s) - 1 THEN (Len(s) - 1) - (i + 1) + 1 ELSE 0
          /\ \A j \in 1 .. (Len(s) - 1) - (i + 1) + 1 : e[j] = s[(i + 1) + j - 1]
      BY <3>1, SubSeqProperties
    <3>3. (Len(s) - 1) - (i + 1) + 1 = Len(d) /\ Len(d) \in Nat
      BY <1>1, <1>2, <1>3
    <3>. QED
      BY <3>2, <3>3
  <2>3. \A j \in 1 .. Len(d) : e[j] = d[j]
    <3>. SUFFICES ASSUME NEW j \in 1 .. Len(d) PROVE e[j] = d[j]
      OBVIOUS
    <3>1. i + j \in i .. Len(s) /\ (i + j) - i + 1 = j + 1
      BY <1>1, <1>2, <1>3
    <3>. QED
      BY <1>2, <1>3, <2>2, <3>1
  <2>4. e = d
    <3>. HIDE DEF e
    <3>. QED
      BY <1>1, <2>2, <2>3, SeqEqual
  <2>. QED
    BY <2>1, <2>4
<1>8. IsIndexAt(s, i)
  <2>1. d # <<>> /\ \A j \in 1 .. Len(d) : d[j] \in DOMAIN Digit
    BY <1>1 DEF Number
  <2>2. IsAtoi(d)
    BY <1>1, <2>1 DEF IsAtoi, Range
  <2>. QED
    BY <1>1, <1>6, <1>7, <2>2 DEF IsIndexAt, IsArrayIndex
<1>9. f[i][separable] = Reads(s, f, i, separable)
  <2>1. i \in Places(s)
    BY DEF Places
  <2>. QED
    BY <2>1 DEF IsParse
<1>10. f[i][separable] = Prefixed(Index(n), {<<>>})
  <2>1. f[Len(s) + 1][TRUE] = {<<>>}
    BY AtTheEnd
  <2>2. ~(i > Len(s)) /\ s[i] # "."
    BY <1>4
  <2>3. Reads(s, f, i, separable) = Prefixed(Index(Atoi(d)), f[Len(s) + 1][TRUE])
    BY <1>4, <1>6, <1>7, <1>8, <2>2, Zenon DEF Reads
  <2>. QED
    BY <1>1, <1>9, <2>1, <2>3
<1>. QED
  BY <1>10 DEF Prefixed

\* Reading a text is not disturbed by a separator and what follows it.
LEMMA PrefixReads ==
  ASSUME NEW p \in Seq(Token), NEW q \in Seq(Token), q # <<>>, q[1] \in {".", "["}
  PROVE  /\ p \o q \in Seq(Token) /\ Len(p \o q) = Len(p) + Len(q) /\ Len(q) > 0
         /\ \A j \in 1 .. Len(p) : (p \o q)[j] = p[j]
         /\ (p \o q)[Len(p) + 1] = q[1]
         /\ \A j \in 1 .. Len(q) : (p \o q)[Len(p) + j] = q[j]
<1>1. /\ p \o q \in Seq(Token) /\ Len(p \o q) = Len(p) + Len(q)
      /\ \A i \in 1 .. Len(p) + Len(q) : (p \o q)[i] = IF i <= Len(p) THEN p[i] ELSE q[i - Len(p)]
  BY ConcatProperties
<1>2. Len(p) \in Nat /\ Len(q) \in Nat /\ Len(q) > 0
  OBVIOUS
<1>3. \A j \in 1 .. Len(p) : (p \o q)[j] = p[j]
  BY <1>1, <1>2
<1>4. \A j \in 1 .. Len(q) : (p \o q)[Len(p) + j] = q[j]
  <2>. SUFFICES ASSUME NEW j \in 1 .. Len(q) PROVE (p \o q)[Len(p) + j] = q[j]
    OBVIOUS
  <2>1. Len(p) + j \in 1 .. Len(p) + Len(q) /\ ~(Len(p) + j <= Len(p)) /\ (Len(p) + j) - Len(p) = j
    BY <1>2
  <2>. QED
    BY <1>1, <2>1
<1>5. (p \o q)[Len(p) + 1] = q[1]
  BY <1>2, <1>4
<1>. QED
  BY <1>1, <1>2, <1>3, <1>4, <1>5

LEMMA SamePart ==
  ASSUME NEW p \in Seq(Token), NEW t \in Seq(Token), Len(p) <= Len(t),
         \A j \in 1 .. Len(p) : t[j] = p[j], NEW a \in Nat \ {0}, NEW b \in Int, b <= Len(p)
  PROVE  SubSeq(t, a, b) = SubSeq(p, a, b)
<1>1. \A j \in a .. b : t[j] = p[j] /\ p[j] \in Token /\ t[j] \in Token
  <2>. SUFFICES ASSUME NEW j \in a .. b PROVE t[j] = p[j] /\ p[j] \in Token
    OBVIOUS
  <2>1. j \in 1 .. Len(p)
    OBVIOUS
  <2>. QED
    BY <2>1
<1>2. /\ SubSeq(t, a, b) \in Seq(Token) /\ Len(SubSeq(t, a, b)) = IF a <= b THEN b - a + 1 ELSE 0
      /\ \A j \in 1 .. b - a + 1 : SubSeq(t, a, b)[j] = t[a + j - 1]
  BY <1>1, SubSeqProperties
<1>3. /\ SubSeq(p, a, b) \in Seq(Token) /\ Len(SubSeq(p, a, b)) = IF a <= b THEN b - a + 1 ELSE 0
      /\ \A j \in 1 .. b - a + 1 : SubSeq(p, a, b)[j] = p[a + j - 1]
  BY <1>1, SubSeqProperties
<1>. DEFINE x == SubSeq(t, a, b)
            y == SubSeq(p, a, b)
<1>4. Len(x) = Len(y) /\ x \in Seq(Token) /\ y \in Seq(Token)
  BY <1>2, <1>3
<1>5. \A j \in 1 .. Len(x) : x[j] = y[j]
  <2>. SUFFICES ASSUME NEW j \in 1 .. Len(x) PROVE x[j] = y[j]
    OBVIOUS
  <2>1. a <= b /\ j \in 1 .. b - a + 1 /\ a + j - 1 \in a .. b
    BY <1>2
  <2>. QED
    BY <1>1, <1>2, <1>3, <2>1
<1>. HIDE DEF x, y
<1>6. x = y
  BY <1>4, <1>5, SeqEqual
<1>. QED
  BY <1>6 DEF x, y

LEMMA PrefixBracket ==
  ASSUME NEW p \in Seq(Token), NEW t \in Seq(Token), Len(p) <= Len(t),
         \A j \in 1 .. Len(p) : t[j] = p[j], NEW i \in Nat \ {0},
         IndexFrom(p, i, "]") # 0
  PROVE  IndexFrom(t, i, "]") = IndexFrom(p, i, "]")
<1>. DEFINE a == IndexFrom(p, i, "]")
            b == IndexFrom(t, i, "]")
<1>1. a \in i .. Len(p) /\ p[a] = "]" /\ \A j \in i .. a - 1 : p[j] # "]"
  BY IndexFromFacts
<1>2. \/ b = 0 /\ \A j \in i .. Len(t) : t[j] # "]"
      \/ b \in i .. Len(t) /\ t[b] = "]" /\ \A j \in i .. b - 1 : t[j] # "]"
  BY IndexFromFacts
<1>. HIDE DEF a, b
<1>3. a \in i .. Len(t) /\ t[a] = "]"
  BY <1>1
<1>4. b \in i .. Len(t) /\ t[b] = "]" /\ b <= a
  BY <1>2, <1>3
<1>5. ~(b < a)
  <2>. SUFFICES ASSUME b < a PROVE FALSE
    BY <1>1, <1>4
  <2>1. b \in i .. a - 1 /\ b \in 1 .. Len(p)
    BY <1>1, <1>4
  <2>. QED
    BY <1>1, <1>4, <2>1
<1>. QED
  BY <1>1, <1>4, <1>5 DEF a, b

LEMMA PrefixKeyEnd ==
  ASSUME NEW p \in Seq(Token), NEW t \in Seq(Token), Len(p) < Len(t),
         \A j \in 1 .. Len(p) : t[j] = p[j], t[Len(p) + 1] \in {".", "["},
         NEW i \in 1 .. Len(p), p[i] \notin {".", "["}
  PROVE  KeyEnd(t, i) = KeyEnd(p, i)
<1>. DEFINE a == KeyEnd(p, i)
            b == KeyEnd(t, i)
<1>1. /\ a \in i .. Len(p) /\ \A j \in i .. a : p[j] \notin {".", "["}
      /\ a < Len(p) => p[a + 1] \in {".", "["}
  BY KeyEndFacts
<1>2. i \in 1 .. Len(t) /\ t[i] \notin {".", "["}
  OBVIOUS
<1>3. /\ b \in i .. Len(t) /\ \A j \in i .. b : t[j] \notin {".", "["}
      /\ b < Len(t) => t[b + 1] \in {".", "["}
  BY <1>2, KeyEndFacts
<1>. HIDE DEF a, b
<1>4. t[a + 1] \in {".", "["}
  <2>1. CASE a < Len(p)
    <3>1. a + 1 \in 1 .. Len(p)
      BY <1>1, <2>1
    <3>. QED
      BY <1>1, <2>1, <3>1
  <2>2. CASE a = Len(p)
    BY <2>2
  <2>. QED
    BY <1>1, <2>1, <2>2
<1>5. ~(a < b)
  <2>. SUFFICES ASSUME a < b PROVE FALSE
    OBVIOUS
  <2>1. a + 1 \in i .. b
    BY <1>1, <1>3
  <2>. QED
    BY <1>3, <1>4, <2>1
<1>6. ~(b < a)
  <2>. SUFFICES ASSUME b < a PROVE FALSE
    OBVIOUS
  <2>1. b + 1 \in i .. a /\ b + 1 \in 1 .. Len(p) /\ b < Len(t)
    BY <1>1, <1>3
  <2>. QED
    BY <1>1, <1>3, <2>1
<1>. QED
  BY <1>1, <1>3, <1>5, <1>6 DEF a, b

\* If the text that follows p is read as one segment where a separator may
\* stand, what a turn finds in p is found with that segment at its end.
IsSegmentAt(f, i, segment) == f[i][TRUE] = {<<segment>>}
IsFollowed(f, g, segment) == \A r \in f[1][FALSE] : g[1][FALSE] = {Append(r, segment)}

LEMMA Extended ==
  ASSUME NEW p \in Seq(Token), NEW q \in Seq(Token), q # <<>>, q[1] \in {".", "["},
         NEW segment,
         NEW f \in [Places(p) -> [BOOLEAN -> Parses]], IsParse(p, f),
         NEW g, IsParse(p \o q, g), IsSegmentAt(g, Len(p) + 1, segment)
  PROVE  IsFollowed(f, g, segment)
<1>. DEFINE t == p \o q
            Good(i) == \A separable \in BOOLEAN : \A r \in f[i][separable] :
                          g[i][separable] = {Append(r, segment)}
            D == Places(p)
            m == [i \in D |-> Len(p) + 1 - i]
            S == {i \in D : Good(i)}
<1>1. /\ t \in Seq(Token) /\ Len(t) = Len(p) + Len(q) /\ Len(q) > 0
      /\ \A j \in 1 .. Len(p) : t[j] = p[j]
      /\ t[Len(p) + 1] = q[1]
  BY PrefixReads
<1>. HIDE DEF t
<1>a. Len(p) \in Nat /\ Len(q) \in Nat /\ Len(p) < Len(t) /\ IsParse(t, g)
  BY <1>1 DEF t
<1>2. m \in [D -> Nat] /\ \A i, j \in D : m[j] < m[i] <=> j > i
  BY <1>a DEF Places
<1>3. ASSUME NEW i \in D, NEW separable \in BOOLEAN
      PROVE  /\ f[i][separable] = Reads(p, f, i, separable)
             /\ g[i][separable] = Reads(t, g, i, separable)
             /\ f[i][separable] \in Parses
  <2>1. i \in Places(t)
    BY <1>1, <1>a DEF Places
  <2>2. f[i] \in [BOOLEAN -> Parses]
    OBVIOUS
  <2>. QED
    BY <1>a, <2>1, <2>2 DEF IsParse
<1>4. ASSUME NEW i \in D, \A y \in D : m[y] < m[i] => y \in S PROVE i \in S
  <2>. SUFFICES ASSUME NEW separable \in BOOLEAN, NEW r \in f[i][separable]
                PROVE  g[i][separable] = {Append(r, segment)}
    OBVIOUS
  <2>0. \A j \in D : j > i => Good(j)
    BY <1>2, <1>4
  <2>1. r \in Reads(p, f, i, separable) /\ g[i][separable] = Reads(t, g, i, separable)
    BY <1>3
  <2>2. CASE i > Len(p)
    <3>1. i = Len(p) + 1
      BY <1>a, <2>2 DEF Places
    <3>2. separable /\ r = <<>>
      BY <2>1, <2>2, Zenon DEF Reads
    <3>3. g[i][separable] = {<<segment>>}
      BY <3>1, <3>2 DEF IsSegmentAt
    <3>4. Append(r, segment) = <<segment>>
      BY <3>2
    <3>. QED
      BY <3>3, <3>4
  <2>3. CASE ~(i > Len(p)) /\ p[i] = "."
    <3>1. i + 1 \in D /\ i + 1 > i /\ ~(i > Len(t)) /\ t[i] = p[i]
      BY <1>1, <1>a, <2>3 DEF Places
    <3>2. separable /\ r \in f[i + 1][FALSE]
      BY <2>1, <2>3, Zenon DEF Reads
    <3>3. g[i + 1][FALSE] = {Append(r, segment)}
      BY <2>0, <3>1, <3>2
    <3>4. Reads(t, g, i, separable) = g[i + 1][FALSE]
      BY <2>3, <3>1, <3>2, Zenon DEF Reads
    <3>. QED
      BY <2>1, <3>3, <3>4
  <2>4. CASE ~(i > Len(p)) /\ p[i] = "["
    <3>. DEFINE e == IndexFrom(p, i, "]")
                n == Index(Atoi(IndexAt(p, i)))
    <3>0. i \in 1 .. Len(p) /\ ~(i > Len(t)) /\ t[i] = "[" /\ "[" # "."
      BY <1>1, <1>a, <2>4 DEF Places
    <3>1. IsIndexAt(p, i) /\ r \in Prefixed(n, f[e + 1][TRUE])
      BY <2>1, <2>4, <3>0, Zenon DEF Reads
    <3>2. PICK x \in f[e + 1][TRUE] : r = <<n>> \o x
      BY <3>1 DEF Prefixed
    <3>3. e \in i .. Len(p) /\ n \in Segment
      BY <3>0, <3>1, IndexSegment
    <3>4. e + 1 \in D /\ e + 1 > i /\ e # 0
      BY <1>a, <3>0, <3>3 DEF Places
    <3>5. g[e + 1][TRUE] = {Append(x, segment)}
      BY <2>0, <3>2, <3>4
    <3>6. IndexFrom(t, i, "]") = e
      <4>1. Len(p) <= Len(t) /\ i \in Nat \ {0} /\ IndexFrom(p, i, "]") # 0
        BY <1>a, <3>0, <3>4
      <4>2. \A j \in 1 .. Len(p) : t[j] = p[j]
        BY <1>1
      <4>. QED
        BY <1>1, <4>1, <4>2, PrefixBracket
    <3>7. IndexAt(t, i) = IndexAt(p, i)
      <4>1. i + 1 \in Nat \ {0} /\ e - 1 \in Int /\ e - 1 <= Len(p) /\ Len(p) <= Len(t)
        BY <1>a, <3>0, <3>3
      <4>. HIDE DEF e
      <4>2. SubSeq(t, i + 1, e - 1) = SubSeq(p, i + 1, e - 1)
        BY <1>1, <4>1, SamePart
      <4>. QED
        BY <3>6, <4>2 DEF IndexAt, e
    <3>8. IsIndexAt(t, i)
      BY <3>1, <3>6, <3>7 DEF IsIndexAt
    <3>9. Reads(t, g, i, separable) = Prefixed(n, g[e + 1][TRUE])
      BY <3>0, <3>6, <3>7, <3>8, Zenon DEF Reads
    <3>10. x \in Seq(Segment)
      <4>1. f[e + 1][TRUE] \in Parses
        BY <1>3, <3>4
      <4>. QED
        BY <3>2, <4>1 DEF Parses
    <3>11. <<n>> \o Append(x, segment) = Append(<<n>> \o x, segment)
      BY <3>3, <3>10
    <3>12. Prefixed(n, {Append(x, segment)}) = {<<n>> \o Append(x, segment)}
      BY DEF Prefixed
    <3>. QED
      BY <2>1, <3>2, <3>5, <3>9, <3>11, <3>12
  <2>5. CASE ~(i > Len(p)) /\ p[i] \notin {".", "["}
    <3>. DEFINE e == KeyEnd(p, i)
                n == Key(SubSeq(p, i, e))
    <3>0. i \in 1 .. Len(p) /\ ~(i > Len(t)) /\ t[i] = p[i] /\ t[i] # "." /\ t[i] # "["
          /\ p[i] # "." /\ p[i] # "["
      BY <1>1, <1>a, <2>5 DEF Places
    <3>1. r \in Prefixed(n, f[e + 1][TRUE])
      BY <2>1, <2>5, <3>0, Zenon DEF Reads
    <3>2. PICK x \in f[e + 1][TRUE] : r = <<n>> \o x
      BY <3>1 DEF Prefixed
    <3>3. e \in i .. Len(p) /\ n \in Segment
      BY <2>5, <3>0, KeyEndFacts, KeySegment
    <3>4. e + 1 \in D /\ e + 1 > i
      BY <1>a, <3>0, <3>3 DEF Places
    <3>5. g[e + 1][TRUE] = {Append(x, segment)}
      BY <2>0, <3>2, <3>4
    <3>6. KeyEnd(t, i) = e
      BY <1>1, <1>a, <2>5, <3>0, PrefixKeyEnd
    <3>7. SubSeq(t, i, e) = SubSeq(p, i, e)
      <4>1. i \in Nat \ {0} /\ e \in Int /\ e <= Len(p) /\ Len(p) <= Len(t)
        BY <1>a, <3>0, <3>3
      <4>. HIDE DEF e
      <4>. QED
        BY <1>1, <4>1, SamePart
    <3>9. Reads(t, g, i, separable) = Prefixed(n, g[e + 1][TRUE])
      BY <3>0, <3>6, <3>7, Zenon DEF Reads
    <3>10. x \in Seq(Segment)
      <4>1. f[e + 1][TRUE] \in Parses
        BY <1>3, <3>4
      <4>. QED
        BY <3>2, <4>1 DEF Parses
    <3>11. <<n>> \o Append(x, segment) = Append(<<n>> \o x, segment)
      BY <3>3, <3>10
    <3>12. Prefixed(n, {Append(x, segment)}) = {<<n>> \o Append(x, segment)}
      BY DEF Prefixed
    <3>. QED
      BY <2>1, <3>2, <3>5, <3>9, <3>11, <3>12
  <2>. QED
    BY <2>2, <2>3, <2>4, <2>5
<1>5. D \subseteq S
  <2>. HIDE DEF D, m, S
  <2>. QED
    BY <1>2, <1>4, MeasureInduction, Zenon
<1>6. 1 \in D
  BY <1>a DEF Places
<1>. QED
  BY <1>5, <1>6 DEF IsFollowed

\* A path has at most one reading, with at least one segment.
LEMMA ParsedOnce ==
  ASSUME NEW s \in Seq(Token), NEW segments \in ParsePath(s)
  PROVE  ParsePath(s) = {segments} /\ segments \in Seq(Segment) /\ segments # <<>>
<1>1. PICK f \in [Places(s) -> [BOOLEAN -> Parses]] : IsParse(s, f) /\ ParsePath(s) = f[1][FALSE]
  BY ParsePathDef
<1>2. 1 \in Places(s) /\ Len(s) \in Nat
  BY DEF Places
<1>3. f[1] \in [BOOLEAN -> Parses]
  BY <1>2
<1>4. f[1][FALSE] \in Parses
  BY <1>3
<1>5. ParsePath(s) = {segments} /\ segments \in Seq(Segment)
  BY <1>1, <1>4 DEF Parses
<1>6. segments \in Reads(s, f, 1, FALSE)
  BY <1>1, <1>2 DEF IsParse
<1>7. segments # <<>>
  <2>1. CASE 1 > Len(s) \/ s[1] = "."
    BY <1>6, <2>1, Zenon DEF Reads
  <2>2. CASE ~(1 > Len(s)) /\ s[1] = "["
    <3>0. 1 \in 1 .. Len(s) /\ s[1] # "."
      BY <1>2, <2>2
    <3>1. IsIndexAt(s, 1)
          /\ segments \in Prefixed(Index(Atoi(IndexAt(s, 1))), f[IndexFrom(s, 1, "]") + 1][TRUE])
      BY <1>6, <2>2, <3>0, Zenon DEF Reads
    <3>2. IndexFrom(s, 1, "]") \in 1 .. Len(s) /\ Index(Atoi(IndexAt(s, 1))) \in Segment
      BY <3>0, <3>1, IndexSegment
    <3>3. f[IndexFrom(s, 1, "]") + 1] \in [BOOLEAN -> Parses]
      BY <1>2, <3>2 DEF Places
    <3>4. f[IndexFrom(s, 1, "]") + 1][TRUE] \in Parses
      BY <3>3
    <3>. QED
      BY <3>1, <3>2, <3>4, PrefixedParses
  <2>3. CASE ~(1 > Len(s)) /\ s[1] \notin {".", "["}
    <3>0. 1 \in 1 .. Len(s) /\ s[1] # "." /\ s[1] # "["
      BY <1>2, <2>3
    <3>1. segments \in Prefixed(Key(SubSeq(s, 1, KeyEnd(s, 1))), f[KeyEnd(s, 1) + 1][TRUE])
      BY <1>6, <2>3, <3>0, Zenon DEF Reads
    <3>2. KeyEnd(s, 1) \in 1 .. Len(s) /\ Key(SubSeq(s, 1, KeyEnd(s, 1))) \in Segment
      BY <2>3, <3>0, KeyEndFacts, KeySegment
    <3>3. f[KeyEnd(s, 1) + 1] \in [BOOLEAN -> Parses]
      BY <1>2, <3>2 DEF Places
    <3>4. f[KeyEnd(s, 1) + 1][TRUE] \in Parses
      BY <3>3
    <3>. QED
      BY <3>1, <3>2, <3>4, PrefixedParses
  <2>. QED
    BY <2>1, <2>2, <2>3
<1>. QED
  BY <1>5, <1>7

LEMMA OneKey ==
  ASSUME NEW k \in PlainKey
  PROVE  ParsePath(k) = {<<Key(k)>>}
<1>1. k \in Seq(Token) /\ k # <<>>
  BY DEF PlainKey, IsPlainKey
<1>2. EndsIn(k, 1, k)
  <2>1. Len(k) \in Nat /\ Len(k) > 0
    BY <1>1
  <2>. QED
    BY <1>1, <2>1, SubSeqFull DEF EndsIn
<1>3. PICK f \in [Places(k) -> [BOOLEAN -> Parses]] : IsParse(k, f) /\ ParsePath(k) = f[1][FALSE]
  BY <1>1, ParsePathDef
<1>4. IsParse(k, f)
  BY <1>3
<1>5. IsReadAs(f, 1, Key(k))
  BY <1>1, <1>2, <1>4, KeyAtEnd
<1>. QED
  BY <1>3, <1>5 DEF IsReadAs

LEMMA OneIndex ==
  ASSUME NEW n \in Nat, n <= MaxIndex
  PROVE  ParsePath(Bracketed(n)) = {<<Index(n)>>}
<1>. DEFINE b == Bracketed(n)
<1>1. b \in Seq(Token) /\ Len(b) = Len(Decimal(n)) + 2
  BY BracketedFacts
<1>1a. Len(Decimal(n)) \in Nat
  <2>1. Decimal(n) \in Seq(DOMAIN Digit)
    BY DecimalReadsBack DEF Number
  <2>. QED
    BY <2>1
<1>2. EndsIn(b, 1, b)
  BY <1>1, <1>1a, SubSeqFull DEF EndsIn
<1>3. PICK f \in [Places(b) -> [BOOLEAN -> Parses]] : IsParse(b, f) /\ ParsePath(b) = f[1][FALSE]
  BY <1>1, ParsePathDef
<1>. HIDE DEF b
<1>4. IsParse(b, f) /\ EndsIn(b, 1, Bracketed(n))
  BY <1>2, <1>3 DEF b
<1>5. IsReadAs(f, 1, Index(n))
  BY <1>1, <1>4, IndexAtEnd
<1>. QED
  BY <1>3, <1>5 DEF b, IsReadAs

\* The text after p, as the end of the whole.
LEMMA EndOfConcat ==
  ASSUME NEW p \in Seq(Token), NEW q \in Seq(Token), q # <<>>
  PROVE  EndsIn(p \o q, Len(p) + 1, q)
<1>. USE DEF EndsIn
<1>1. /\ p \o q \in Seq(Token) /\ Len(p \o q) = Len(p) + Len(q)
      /\ \A i \in 1 .. Len(p) + Len(q) : (p \o q)[i] = IF i <= Len(p) THEN p[i] ELSE q[i - Len(p)]
  BY ConcatProperties
<1>2. Len(p) \in Nat /\ Len(q) \in Nat /\ Len(q) > 0
  OBVIOUS
<1>. DEFINE t == p \o q
            a == Len(p) + 1
            b == Len(p) + Len(q)
            u == SubSeq(t, a, b)
<1>3. \A i \in a .. b : t[i] \in Token
  BY <1>1, <1>2
<1>4. /\ u \in Seq(Token) /\ Len(u) = IF a <= b THEN b - a + 1 ELSE 0
      /\ \A i \in 1 .. b - a + 1 : u[i] = t[a + i - 1]
  <2>1. a \in Int /\ b \in Int
    BY <1>2
  <2>. HIDE DEF t, a, b
  <2>. QED
    BY <1>3, <2>1, SubSeqProperties
<1>5. Len(u) = Len(q)
  BY <1>2, <1>4
<1>6. \A i \in 1 .. Len(u) : u[i] = q[i]
  <2>. SUFFICES ASSUME NEW i \in 1 .. Len(q) PROVE u[i] = q[i]
    BY <1>5
  <2>1. i \in 1 .. b - a + 1 /\ a + i - 1 = Len(p) + i
    BY <1>2
  <2>2. Len(p) + i \in 1 .. Len(p) + Len(q) /\ ~(Len(p) + i <= Len(p)) /\ (Len(p) + i) - Len(p) = i
    BY <1>2
  <2>. QED
    BY <1>1, <1>4, <2>1, <2>2
<1>7. u = q
  <2>. HIDE DEF u
  <2>. QED
    BY <1>4, <1>5, <1>6, SeqEqual
<1>. QED
  BY <1>1, <1>2, <1>7

\* A path and a key that can be part of one, joined by a dot.
LEMMA ExtendedByKey ==
  ASSUME NEW p \in Seq(Token), NEW segments \in ParsePath(p), NEW k \in PlainKey
  PROVE  /\ p \o <<".">> \o k \in Seq(Token)
         /\ ParsePath(p \o <<".">> \o k) = {Append(segments, Key(k))}
<1>. DEFINE dot == <<".">>
            q == dot \o k
            t == p \o q
<1>1. k \in Seq(Token) /\ k # <<>>
  BY DEF PlainKey, IsPlainKey
<1>2. dot \in Seq(Token) /\ Len(dot) = 1 /\ dot[1] = "." /\ dot # <<>>
  <2>1. "." \in Token
    BY TokenAssumption DEF Marks
  <2>. QED
    BY <2>1
<1>. HIDE DEF dot
<1>3. q \in Seq(Token) /\ Len(q) = 1 + Len(k) /\ q[1] = "." /\ q # <<>>
  <2>1. /\ q \in Seq(Token) /\ Len(q) = Len(dot) + Len(k)
        /\ \A i \in 1 .. Len(dot) + Len(k) :
             q[i] = IF i <= Len(dot) THEN dot[i] ELSE k[i - Len(dot)]
    BY <1>1, <1>2, ConcatProperties
  <2>2. Len(k) \in Nat /\ Len(k) > 0
    BY <1>1
  <2>3. q[1] = "."
    BY <1>2, <2>1, <2>2
  <2>. QED
    BY <1>2, <2>1, <2>2, <2>3
<1>4. p \o dot \o k = t
  BY <1>1, <1>2, ConcatAssociative, SMTT(20)
<1>5. t = (p \o dot) \o k /\ p \o dot \in Seq(Token) /\ Len(p \o dot) = Len(p) + 1
  <2>1. p \o dot \in Seq(Token) /\ Len(p \o dot) = Len(p) + 1
    <3>1. p \o dot \in Seq(Token) /\ Len(p \o dot) = Len(p) + Len(dot)
      BY <1>2, ConcatProperties, Zenon
    <3>. QED
      BY <1>2, <3>1, Zenon
  <2>. QED
    BY <1>4, <2>1, Zenon
<1>. HIDE DEF q
<1>6. t \in Seq(Token) /\ Len(t) = Len(p) + Len(q) /\ t[Len(p) + 1] = q[1]
  BY <1>3, PrefixReads
<1>7. PICK f \in [Places(p) -> [BOOLEAN -> Parses]] : IsParse(p, f) /\ ParsePath(p) = f[1][FALSE]
  BY ParsePathDef
<1>8. PICK g \in [Places(t) -> [BOOLEAN -> Parses]] : IsParse(t, g) /\ ParsePath(t) = g[1][FALSE]
  BY <1>6, ParsePathDef
<1>9. IsSegmentAt(g, Len(p) + 1, Key(k))
  <2>1. EndsIn(t, Len(p) + 2, k)
    <3>1. EndsIn((p \o dot) \o k, Len(p \o dot) + 1, k)
      BY <1>1, <1>5, EndOfConcat
    <3>2. Len(p \o dot) + 1 = Len(p) + 2
      BY <1>5
    <3>. HIDE DEF t
    <3>. QED
      BY <1>5, <3>1, <3>2
  <2>2. g[Len(p) + 2][FALSE] = {<<Key(k)>>}
    <3>. HIDE DEF t
    <3>1. IsParse(t, g)
      BY <1>8
    <3>2. IsReadAs(g, Len(p) + 2, Key(k))
      BY <1>6, <2>1, <3>1, KeyAtEnd
    <3>. QED
      BY <3>2 DEF IsReadAs
  <2>3. Len(p) + 1 \in Places(t) /\ ~(Len(p) + 1 > Len(t)) /\ (Len(p) + 1) + 1 = Len(p) + 2
    BY <1>3, <1>6 DEF Places
  <2>4. g[Len(p) + 1][TRUE] = Reads(t, g, Len(p) + 1, TRUE)
    BY <1>8, <2>3 DEF IsParse
  <2>5. t[Len(p) + 1] = "."
    BY <1>3, <1>6
  <2>6. Reads(t, g, Len(p) + 1, TRUE) = g[Len(p) + 2][FALSE]
    <3>. HIDE DEF t
    <3>. QED
      BY <2>3, <2>5 DEF Reads
  <2>. QED
    BY <2>2, <2>4, <2>6 DEF IsSegmentAt
<1>10. IsFollowed(f, g, Key(k))
  <2>1. IsParse(p, f) /\ IsParse(t, g) /\ q[1] \in {".", "["}
    BY <1>3, <1>7, <1>8
  <2>. QED
    BY <1>3, <1>9, <2>1, Extended
<1>11. g[1][FALSE] = {Append(segments, Key(k))}
  BY <1>7, <1>10 DEF IsFollowed
<1>. QED
  BY <1>4, <1>6, <1>8, <1>11 DEF dot

\* A path followed by an index.
LEMMA ExtendedByIndex ==
  ASSUME NEW p \in Seq(Token), NEW segments \in ParsePath(p), NEW n \in Nat,
         n <= MaxIndex
  PROVE  /\ p \o Bracketed(n) \in Seq(Token)
         /\ ParsePath(p \o Bracketed(n)) = {Append(segments, Index(n))}
<1>. DEFINE q == Bracketed(n)
            t == p \o q
<1>3. q \in Seq(Token) /\ Len(q) = Len(Decimal(n)) + 2 /\ q[1] = "["
  BY BracketedFacts
<1>3a. Len(Decimal(n)) \in Nat
  <2>1. Decimal(n) \in Seq(DOMAIN Digit)
    BY DecimalReadsBack DEF Number
  <2>. QED
    BY <2>1
<1>3b. q # <<>> /\ q[1] \in {".", "["}
  BY <1>3, <1>3a
<1>. HIDE DEF q
<1>6. t \in Seq(Token)
  BY <1>3, ConcatProperties
<1>7. PICK f \in [Places(p) -> [BOOLEAN -> Parses]] : IsParse(p, f) /\ ParsePath(p) = f[1][FALSE]
  BY ParsePathDef
<1>8. PICK g \in [Places(t) -> [BOOLEAN -> Parses]] : IsParse(t, g) /\ ParsePath(t) = g[1][FALSE]
  BY <1>6, ParsePathDef
<1>9. IsSegmentAt(g, Len(p) + 1, Index(n))
  <2>1. EndsIn(t, Len(p) + 1, q)
    BY <1>3, <1>3b, EndOfConcat
  <2>. HIDE DEF t
  <2>2. IsParse(t, g) /\ EndsIn(t, Len(p) + 1, Bracketed(n))
    BY <1>8, <2>1 DEF q
  <2>3. IsReadAs(g, Len(p) + 1, Index(n))
    BY <1>6, <2>2, IndexAtEnd
  <2>. QED
    BY <2>3 DEF IsReadAs, IsSegmentAt
<1>10. IsFollowed(f, g, Index(n))
  <2>1. IsParse(p, f) /\ IsParse(t, g)
    BY <1>7, <1>8
  <2>. QED
    BY <1>3, <1>3b, <1>9, <2>1, Extended
<1>11. g[1][FALSE] = {Append(segments, Index(n))}
  BY <1>7, <1>10 DEF IsFollowed
<1>. QED
  BY <1>6, <1>8, <1>11 DEF q
-----------------------------------------------------------------------------
(* formatTraversed.                                                        *)

LEMMA Firsts ==
  ASSUME NEW T, NEW segments \in Seq(T), NEW n \in 0 .. Len(segments)
  PROVE  /\ SubSeq(segments, 1, n) \in Seq(T) /\ Len(SubSeq(segments, 1, n)) = n
         /\ \A i \in 1 .. n : SubSeq(segments, 1, n)[i] = segments[i]
         /\ SubSeq(segments, 1, Len(segments)) = segments
         /\ SubSeq(segments, 1, 0) = <<>>
  OBVIOUS

\* The firsts of the firsts.
LEMMA FirstsOfFirsts ==
  ASSUME NEW T, NEW segments \in Seq(T), NEW n \in 0 .. Len(segments), NEW m \in 0 .. n
  PROVE  SubSeq(SubSeq(segments, 1, n), 1, m) = SubSeq(segments, 1, m)
<1>. DEFINE p == SubSeq(segments, 1, n)
            a == SubSeq(p, 1, m)
            b == SubSeq(segments, 1, m)
<1>1. p \in Seq(T) /\ Len(p) = n /\ \A i \in 1 .. n : p[i] = segments[i]
  BY Firsts
<1>. HIDE DEF p
<1>2. a \in Seq(T) /\ Len(a) = m /\ \A i \in 1 .. m : a[i] = p[i]
  BY <1>1, Firsts
<1>3. m \in 0 .. Len(segments)
  OBVIOUS
<1>4. b \in Seq(T) /\ Len(b) = m /\ \A i \in 1 .. m : b[i] = segments[i]
  BY <1>3, Firsts
<1>. HIDE DEF a, b
<1>5. \A i \in 1 .. m : a[i] = b[i]
  BY <1>1, <1>2, <1>4
<1>6. a = b
  BY <1>2, <1>4, <1>5, SeqEqual
<1>. QED
  BY <1>6 DEF a, b, p

LEMMA OneMore ==
  ASSUME NEW T, NEW segments \in Seq(T), NEW n \in 1 .. Len(segments)
  PROVE  SubSeq(segments, 1, n) = Append(SubSeq(segments, 1, n - 1), segments[n])
<1>. DEFINE a == SubSeq(segments, 1, n)
            p == SubSeq(segments, 1, n - 1)
            b == Append(p, segments[n])
<1>1. a \in Seq(T) /\ Len(a) = n /\ \A i \in 1 .. n : a[i] = segments[i]
  BY Firsts
<1>2. n - 1 \in 0 .. Len(segments) /\ segments[n] \in T
  OBVIOUS
<1>3. p \in Seq(T) /\ Len(p) = n - 1 /\ \A i \in 1 .. n - 1 : p[i] = segments[i]
  BY <1>2, Firsts
<1>. HIDE DEF a, p
<1>4. b \in Seq(T) /\ Len(b) = n /\ \A i \in 1 .. n : b[i] = segments[i]
  BY <1>2, <1>3
<1>5. a = b
  <2>. HIDE DEF b
  <2>. QED
    BY <1>1, <1>4, SeqEqual
<1>. QED
  BY <1>5 DEF a, p

\* The texts of the first segments.
Longer(text, segments, n) == text \o Piece(segments, n)
IsText(segments, f) ==
  f[0] = <<>> /\ \A n \in 1 .. Len(segments) : f[n] = Longer(f[n - 1], segments, n)

LEMMA FormattedDef ==
  ASSUME NEW segments, Len(segments) \in Nat
  PROVE  \E f : IsText(segments, f) /\ Formatted(segments) = f[Len(segments)]
<1>. DEFINE Def(N, f) == f = [n \in 0 .. N |->
                                IF n = 0 THEN <<>> ELSE Longer(f[n - 1], segments, n)]
            S == {N \in Nat : \E f : Def(N, f)}
<1>1. 0 \in S
  <2>1. Def(0, [n \in 0 .. 0 |-> <<>>])
    OBVIOUS
  <2>. QED
    BY <2>1
<1>2. ASSUME NEW N \in Nat, N \in S PROVE N + 1 \in S
  <2>1. PICK f : Def(N, f)
    BY <1>2
  <2>. DEFINE g == [n \in 0 .. N + 1 |->
                      IF n <= N THEN f[n] ELSE Longer(f[N], segments, N + 1)]
  <2>2. ASSUME NEW n \in 0 .. N + 1
        PROVE  g[n] = IF n = 0 THEN <<>> ELSE Longer(g[n - 1], segments, n)
    <3>1. CASE n = 0
      BY <2>1, <3>1
    <3>2. CASE n # 0 /\ n <= N
      <4>1. f[n] = Longer(f[n - 1], segments, n)
        BY <2>1, <3>2
      <4>2. g[n] = f[n] /\ g[n - 1] = f[n - 1]
        BY <3>2
      <4>. QED
        BY <3>2, <4>1, <4>2
    <3>3. CASE n = N + 1
      <4>1. g[n] = Longer(f[N], segments, n) /\ g[n - 1] = f[N] /\ n # 0
        BY <3>3
      <4>. QED
        BY <4>1
    <3>. QED
      BY <3>1, <3>2, <3>3
  <2>3. Def(N + 1, g)
    BY <2>2
  <2>4. \E h : Def(N + 1, h)
    <3>. HIDE DEF Def
    <3>. QED
      BY <2>3
  <2>. HIDE DEF Def
  <2>. QED
    BY <2>4
<1>3. Nat \subseteq S
  <2>. HIDE DEF S
  <2>. QED
    BY <1>1, <1>2, NatSetInduction
<1>4. PICK f : Def(Len(segments), f)
  BY <1>3
<1>. DEFINE v == CHOOSE g : Def(Len(segments), g)
<1>5. Def(Len(segments), v)
  <2>. HIDE DEF Def
  <2>. QED
    BY <1>4
<1>6. Formatted(segments) = v[Len(segments)]
  BY DEF Formatted, Longer
<1>. HIDE DEF v
<1>7. \A n \in 0 .. Len(segments) :
         v[n] = IF n = 0 THEN <<>> ELSE Longer(v[n - 1], segments, n)
  BY <1>5
<1>8. IsText(segments, v)
  BY <1>7 DEF IsText
<1>. QED
  BY <1>6, <1>8

\* The texts of two lists that begin alike begin alike.
LEMMA TextsAgree ==
  ASSUME NEW segments \in Seq(Segment), NEW N \in 0 .. Len(segments),
         NEW f, IsText(segments, f), NEW g, IsText(SubSeq(segments, 1, N), g)
  PROVE  \A n \in 0 .. N : f[n] = g[n]
<1>. DEFINE p == SubSeq(segments, 1, N)
            S == {n \in Nat : n <= N => f[n] = g[n]}
<1>1. Len(p) = N /\ \A i \in 1 .. N : p[i] = segments[i]
  BY Firsts
<1>2. IsText(p, g)
  OBVIOUS
<1>. HIDE DEF p
<1>3. 0 \in S
  BY <1>2 DEF IsText
<1>4. ASSUME NEW n \in Nat, n \in S PROVE n + 1 \in S
  <2>. SUFFICES ASSUME n + 1 <= N PROVE f[n + 1] = g[n + 1]
    OBVIOUS
  <2>1. n + 1 \in 1 .. N /\ n + 1 \in 1 .. Len(segments) /\ (n + 1) - 1 = n
    OBVIOUS
  <2>2. f[n + 1] = Longer(f[n], segments, n + 1) /\ g[n + 1] = Longer(g[n], p, n + 1)
    BY <1>1, <1>2, <2>1 DEF IsText
  <2>3. f[n] = g[n]
    BY <1>4, <2>1
  <2>4. Piece(segments, n + 1) = Piece(p, n + 1)
    BY <1>1, <2>1 DEF Piece
  <2>5. Longer(f[n], segments, n + 1) = Longer(g[n], p, n + 1)
    BY <2>3, <2>4, Zenon DEF Longer
  <2>. QED
    BY <2>2, <2>5
<1>5. Nat \subseteq S
  <2>. HIDE DEF S
  <2>. QED
    BY <1>3, <1>4, NatSetInduction
<1>. QED
  BY <1>5

\* formatTraversed adds one piece after the other.
LEMMA FormattedStep ==
  ASSUME NEW segments \in Seq(Segment), NEW n \in 1 .. Len(segments)
  PROVE  /\ Formatted(<<>>) = <<>>
         /\ Formatted(SubSeq(segments, 1, n))
              = Longer(Formatted(SubSeq(segments, 1, n - 1)), segments, n)
<1>. DEFINE p == SubSeq(segments, 1, n)
            q == SubSeq(segments, 1, n - 1)
<1>0. n \in 0 .. Len(segments) /\ n - 1 \in 0 .. Len(segments) /\ Len(segments) \in Nat
  OBVIOUS
<1>1. Len(p) = n /\ Len(q) = n - 1
  BY <1>0, Firsts
<1>2. PICK f : IsText(segments, f)
  BY <1>0, FormattedDef
<1>. HIDE DEF p, q
<1>3. PICK g : IsText(p, g) /\ Formatted(p) = g[n]
  BY <1>0, <1>1, FormattedDef
<1>4. PICK h : IsText(q, h) /\ Formatted(q) = h[n - 1]
  BY <1>0, <1>1, FormattedDef
<1>5. f[n] = g[n]
  <2>1. \A i \in 0 .. n : f[i] = g[i]
    BY <1>0, <1>2, <1>3, TextsAgree DEF p
  <2>. QED
    BY <1>0, <2>1
<1>6. f[n - 1] = h[n - 1]
  <2>1. \A i \in 0 .. n - 1 : f[i] = h[i]
    BY <1>0, <1>2, <1>4, TextsAgree DEF q
  <2>. QED
    BY <1>0, <2>1
<1>7. f[n] = Longer(f[n - 1], segments, n)
  BY <1>2 DEF IsText
<1>8. Formatted(<<>>) = <<>>
  <2>1. PICK e : IsText(<<>>, e) /\ Formatted(<<>>) = e[Len(<<>>)]
    BY FormattedDef
  <2>. QED
    BY <2>1 DEF IsText
<1>. QED
  BY <1>3, <1>4, <1>5, <1>6, <1>7, <1>8 DEF p, q

\* What formatTraversed writes is a path, and parsePath reads the segments back.
THEOREM FormattedReadsBack ==
  ASSUME NEW segments \in Seq(Segment), segments # <<>>
  PROVE  Formatted(segments) \in Seq(Token) /\ ParsePath(Formatted(segments)) = {segments}
<1>. DEFINE First(n) == SubSeq(segments, 1, n)
            Good(n) == /\ Formatted(First(n)) \in Seq(Token)
                       /\ ParsePath(Formatted(First(n))) = {First(n)}
            S == {n \in Nat : n + 1 <= Len(segments) => Good(n + 1)}
<1>1. ASSUME NEW n \in 1 .. Len(segments)
      PROVE  /\ Formatted(First(n)) = Longer(Formatted(First(n - 1)), segments, n)
             /\ First(n) = Append(First(n - 1), segments[n])
             /\ segments[n] \in Segment
  BY FormattedStep, OneMore
<1>2. First(0) = <<>> /\ Formatted(<<>>) = <<>>
  BY FormattedStep, Firsts
<1>3. ASSUME NEW n \in 1 .. Len(segments), IsIndex(segments[n])
      PROVE  /\ Piece(segments, n) = Bracketed(segments[n].index)
             /\ segments[n].index \in Nat /\ segments[n].index <= MaxIndex
             /\ segments[n] = Index(segments[n].index)
  <2>1. segments[n] \in [index : 0 .. MaxIndex]
    BY <1>1, <1>3 DEF Segment, IsIndex
  <2>. QED
    BY <1>3, <2>1, MaxIndexAssumption DEF Piece, Bracketed, Index
<1>4. ASSUME NEW n \in 1 .. Len(segments), ~IsIndex(segments[n])
      PROVE  /\ Piece(segments, n) = IF n > 1 THEN <<".">> \o segments[n].key ELSE segments[n].key
             /\ segments[n].key \in PlainKey /\ segments[n] = Key(segments[n].key)
  <2>1. segments[n] \in [key : PlainKey]
    BY <1>1, <1>4 DEF Segment, IsIndex
  <2>2. segments[n] = Key(segments[n].key) /\ segments[n].key \in PlainKey
    BY <2>1 DEF Key
  <2>. QED
    BY <1>4, <2>2 DEF Piece
<1>. HIDE DEF First
<1>5. 0 \in S
  <2>. SUFFICES ASSUME 1 <= Len(segments) PROVE Good(1)
    OBVIOUS
  <2>1. 1 \in 1 .. Len(segments) /\ ~(1 > 1)
    OBVIOUS
  <2>1a. First(1 - 1) = <<>> /\ Formatted(First(1 - 1)) = <<>>
    BY <1>2
  <2>2. First(1) = <<segments[1]>>
    <3>1. First(1) = Append(<<>>, segments[1])
      BY <1>1, <2>1, <2>1a
    <3>. QED
      BY <3>1
  <2>3. Formatted(First(1)) = <<>> \o Piece(segments, 1)
    <3>1. Formatted(First(1)) = Longer(<<>>, segments, 1)
      BY <1>1, <2>1, <2>1a
    <3>. QED
      BY <3>1 DEF Longer
  <2>4. CASE IsIndex(segments[1])
    <3>1. Piece(segments, 1) = Bracketed(segments[1].index) /\ segments[1].index \in Nat
          /\ segments[1].index <= MaxIndex /\ segments[1] = Index(segments[1].index)
      BY <1>3, <2>1, <2>4
    <3>. DEFINE i == segments[1].index
    <3>. HIDE DEF i
    <3>2. Bracketed(i) \in Seq(Token) /\ ParsePath(Bracketed(i)) = {<<Index(i)>>}
      BY <3>1, BracketedFacts, OneIndex DEF i
    <3>3. <<>> \o Bracketed(i) = Bracketed(i)
      BY <3>2
    <3>4. Formatted(First(1)) = Bracketed(i) /\ First(1) = <<Index(i)>>
      BY <2>2, <2>3, <3>1, <3>3 DEF i
    <3>. QED
      BY <3>2, <3>4
  <2>5. CASE ~IsIndex(segments[1])
    <3>1. Piece(segments, 1) = segments[1].key /\ segments[1].key \in PlainKey
          /\ segments[1] = Key(segments[1].key)
      BY <1>4, <2>1, <2>5
    <3>. DEFINE k == segments[1].key
    <3>. HIDE DEF k
    <3>2. k \in Seq(Token) /\ ParsePath(k) = {<<Key(k)>>}
      BY <3>1, OneKey DEF k, PlainKey
    <3>3. <<>> \o k = k
      BY <3>2
    <3>4. Formatted(First(1)) = k /\ First(1) = <<Key(k)>>
      BY <2>2, <2>3, <3>1, <3>3 DEF k
    <3>. QED
      BY <3>2, <3>4
  <2>. QED
    BY <2>4, <2>5
<1>6. ASSUME NEW n \in Nat, n \in S PROVE n + 1 \in S
  <2>. SUFFICES ASSUME (n + 1) + 1 <= Len(segments) PROVE Good((n + 1) + 1)
    OBVIOUS
  <2>. DEFINE m == (n + 1) + 1
              p == Formatted(First(n + 1))
              r == First(n + 1)
  <2>1. m \in 1 .. Len(segments) /\ m - 1 = n + 1 /\ m > 1 /\ n + 1 <= Len(segments)
    OBVIOUS
  <2>2. p \in Seq(Token) /\ r \in ParsePath(p)
    BY <1>6, <2>1
  <2>3. Formatted(First(m)) = p \o Piece(segments, m) /\ First(m) = Append(r, segments[m])
    BY <1>1, <2>1 DEF Longer
  <2>4. CASE IsIndex(segments[m])
    <3>. DEFINE i == segments[m].index
    <3>1. Piece(segments, m) = Bracketed(i) /\ i \in Nat /\ i <= MaxIndex /\ segments[m] = Index(i)
      BY <1>3, <2>1, <2>4
    <3>. HIDE DEF i, p, r, m
    <3>2. p \o Bracketed(i) \in Seq(Token) /\ ParsePath(p \o Bracketed(i)) = {Append(r, Index(i))}
      BY <2>2, <3>1, ExtendedByIndex
    <3>3. Formatted(First(m)) = p \o Bracketed(i) /\ First(m) = Append(r, Index(i))
      BY <2>3, <3>1, Zenon
    <3>4. Good(m)
      BY <3>2, <3>3
    <3>. QED
      BY <3>4 DEF m
  <2>5. CASE ~IsIndex(segments[m])
    <3>. DEFINE k == segments[m].key
                dot == <<".">>
    <3>1. Piece(segments, m) = dot \o k /\ k \in PlainKey /\ segments[m] = Key(k)
      BY <1>4, <2>1, <2>5
    <3>2. dot \in Seq(Token)
      BY TokenAssumption DEF Marks
    <3>3. p \o dot \o k \in Seq(Token) /\ ParsePath(p \o dot \o k) = {Append(r, Key(k))}
      <4>. HIDE DEF k, p, r, m
      <4>. QED
        BY <2>2, <3>1, ExtendedByKey
    <3>. HIDE DEF k, p, r, m, dot
    <3>4. p \o dot \o k = p \o (dot \o k)
      <4>1. k \in Seq(Token)
        BY <3>1 DEF PlainKey
      <4>. QED
        BY <2>2, <3>2, <4>1, ConcatAssociative
    <3>5. Formatted(First(m)) = p \o dot \o k /\ First(m) = Append(r, Key(k))
      BY <2>3, <3>1, <3>4, Zenon
    <3>6. Good(m)
      BY <3>3, <3>5
    <3>. QED
      BY <3>6 DEF m
  <2>. QED
    BY <2>4, <2>5
<1>7. Nat \subseteq S
  <2>. HIDE DEF S
  <2>. QED
    BY <1>5, <1>6, NatSetInduction
<1>8. Len(segments) \in Nat /\ Len(segments) > 0 /\ First(Len(segments)) = segments
  BY Firsts DEF First
<1>9. Good(Len(segments))
  <2>1. Len(segments) - 1 \in S /\ (Len(segments) - 1) + 1 = Len(segments)
    <3>. HIDE DEF S
    <3>. QED
      BY <1>7, <1>8
  <2>. QED
    BY <2>1
<1>. QED
  BY <1>8, <1>9

-----------------------------------------------------------------------------
(* navigate.                                                               *)

\* Where the first segments lead.
IsWalk(tree, segments, at) ==
  at[0] = Found(tree) /\ \A n \in 1 .. Len(segments) : at[n] = Entered(at[n - 1], segments, n)

LEMMA WalkDef ==
  ASSUME NEW tree, NEW segments, Len(segments) \in Nat
  PROVE  \E at : IsWalk(tree, segments, at) /\ WalkFrom(tree, segments) = at[Len(segments)]
<1>. DEFINE Def(N, f) == f = [n \in 0 .. N |->
                                IF n = 0 THEN Found(tree) ELSE Entered(f[n - 1], segments, n)]
            S == {N \in Nat : \E f : Def(N, f)}
<1>1. 0 \in S
  <2>1. Def(0, [n \in 0 .. 0 |-> Found(tree)])
    OBVIOUS
  <2>. QED
    BY <2>1
<1>2. ASSUME NEW N \in Nat, N \in S PROVE N + 1 \in S
  <2>1. PICK f : Def(N, f)
    BY <1>2
  <2>. DEFINE g == [n \in 0 .. N + 1 |->
                      IF n <= N THEN f[n] ELSE Entered(f[N], segments, N + 1)]
  <2>2. ASSUME NEW n \in 0 .. N + 1
        PROVE  g[n] = IF n = 0 THEN Found(tree) ELSE Entered(g[n - 1], segments, n)
    <3>1. CASE n = 0
      BY <2>1, <3>1
    <3>2. CASE n # 0 /\ n <= N
      <4>1. f[n] = Entered(f[n - 1], segments, n)
        BY <2>1, <3>2
      <4>2. g[n] = f[n] /\ g[n - 1] = f[n - 1]
        BY <3>2
      <4>. QED
        BY <3>2, <4>1, <4>2
    <3>3. CASE n = N + 1
      <4>1. g[n] = Entered(f[N], segments, n) /\ g[n - 1] = f[N] /\ n # 0
        BY <3>3
      <4>. QED
        BY <4>1
    <3>. QED
      BY <3>1, <3>2, <3>3
  <2>3. Def(N + 1, g)
    BY <2>2
  <2>4. \E h : Def(N + 1, h)
    <3>. HIDE DEF Def
    <3>. QED
      BY <2>3
  <2>. HIDE DEF Def
  <2>. QED
    BY <2>4
<1>3. Nat \subseteq S
  <2>. HIDE DEF S
  <2>. QED
    BY <1>1, <1>2, NatSetInduction
<1>4. PICK f : Def(Len(segments), f)
  BY <1>3
<1>. DEFINE v == CHOOSE g : Def(Len(segments), g)
<1>5. Def(Len(segments), v)
  <2>. HIDE DEF Def
  <2>. QED
    BY <1>4
<1>6. WalkFrom(tree, segments) = v[Len(segments)]
  BY DEF WalkFrom
<1>. HIDE DEF v
<1>7. \A n \in 0 .. Len(segments) :
         v[n] = IF n = 0 THEN Found(tree) ELSE Entered(v[n - 1], segments, n)
  BY <1>5
<1>8. IsWalk(tree, segments, v)
  BY <1>7 DEF IsWalk
<1>. QED
  BY <1>6, <1>8

\* A segment is entered alike in a list and in one that goes on after it.
LEMMA EnteredAlike ==
  ASSUME NEW segments \in Seq(Segment), NEW N \in 0 .. Len(segments), NEW n \in 1 .. N, NEW result
  PROVE  Entered(result, SubSeq(segments, 1, N), n) = Entered(result, segments, n)
<1>. DEFINE p == SubSeq(segments, 1, N)
<1>1. p[n] = segments[n]
  BY Firsts
<1>2. SubSeq(p, 1, n) = SubSeq(segments, 1, n)
  BY FirstsOfFirsts
<1>. HIDE DEF p
<1>3. Entered(result, p, n) = Entered(result, segments, n)
  BY <1>1, <1>2, Zenon DEF Entered
<1>. QED
  BY <1>3 DEF p

LEMMA WalksAgree ==
  ASSUME NEW tree, NEW segments \in Seq(Segment), NEW N \in 0 .. Len(segments),
         NEW f, IsWalk(tree, segments, f), NEW g, IsWalk(tree, SubSeq(segments, 1, N), g)
  PROVE  \A n \in 0 .. N : f[n] = g[n]
<1>. DEFINE p == SubSeq(segments, 1, N)
            S == {n \in Nat : n <= N => f[n] = g[n]}
<1>1. Len(p) = N
  BY Firsts
<1>2. IsWalk(tree, p, g)
  OBVIOUS
<1>3. \A n \in 1 .. N : \A result : Entered(result, p, n) = Entered(result, segments, n)
  BY EnteredAlike
<1>. HIDE DEF p
<1>4. 0 \in S
  BY <1>2 DEF IsWalk
<1>5. ASSUME NEW n \in Nat, n \in S PROVE n + 1 \in S
  <2>. SUFFICES ASSUME n + 1 <= N PROVE f[n + 1] = g[n + 1]
    OBVIOUS
  <2>1. n + 1 \in 1 .. N /\ n + 1 \in 1 .. Len(segments) /\ (n + 1) - 1 = n
    OBVIOUS
  <2>2. f[n + 1] = Entered(f[n], segments, n + 1) /\ g[n + 1] = Entered(g[n], p, n + 1)
    BY <1>1, <1>2, <2>1 DEF IsWalk
  <2>3. f[n] = g[n]
    BY <1>5, <2>1
  <2>. QED
    BY <1>3, <2>1, <2>2, <2>3
<1>6. Nat \subseteq S
  <2>. HIDE DEF S
  <2>. QED
    BY <1>4, <1>5, NatSetInduction
<1>. QED
  BY <1>6

\* navigate enters one segment after the other.
LEMMA WalkStep ==
  ASSUME NEW tree, NEW segments \in Seq(Segment), NEW n \in 1 .. Len(segments)
  PROVE  WalkFrom(tree, SubSeq(segments, 1, n))
           = Entered(WalkFrom(tree, SubSeq(segments, 1, n - 1)), segments, n)
<1>. DEFINE p == SubSeq(segments, 1, n)
            q == SubSeq(segments, 1, n - 1)
<1>0. n \in 0 .. Len(segments) /\ n - 1 \in 0 .. Len(segments) /\ Len(segments) \in Nat
  OBVIOUS
<1>1. Len(p) = n /\ Len(q) = n - 1
  BY <1>0, Firsts
<1>2. PICK f : IsWalk(tree, segments, f)
  BY <1>0, WalkDef
<1>. HIDE DEF p, q
<1>3. PICK g : IsWalk(tree, p, g) /\ WalkFrom(tree, p) = g[n]
  BY <1>0, <1>1, WalkDef
<1>4. PICK h : IsWalk(tree, q, h) /\ WalkFrom(tree, q) = h[n - 1]
  BY <1>0, <1>1, WalkDef
<1>5. f[n] = g[n]
  <2>1. \A i \in 0 .. n : f[i] = g[i]
    BY <1>0, <1>2, <1>3, WalksAgree DEF p
  <2>. QED
    BY <1>0, <2>1
<1>6. f[n - 1] = h[n - 1]
  <2>1. \A i \in 0 .. n - 1 : f[i] = h[i]
    BY <1>0, <1>2, <1>4, WalksAgree DEF q
  <2>. QED
    BY <1>0, <2>1
<1>7. f[n] = Entered(f[n - 1], segments, n)
  BY <1>2 DEF IsWalk
<1>. QED
  BY <1>3, <1>4, <1>5, <1>6, <1>7 DEF p, q

LEMMA WalkOfNothing ==
  ASSUME NEW tree
  PROVE  WalkFrom(tree, <<>>) = Found(tree)
<1>1. PICK at : IsWalk(tree, <<>>, at) /\ WalkFrom(tree, <<>>) = at[Len(<<>>)]
  BY WalkDef
<1>. QED
  BY <1>1 DEF IsWalk

\* A walk that stops does so at one of the segments, and the error names the
\* path up to there: a walk along that path stops with the same error.
Absent(v, segment) ==
  \/ IsIndex(segment) /\ IsListNode(v) /\ ~(segment.index < Len(v.list))
  \/ ~IsIndex(segment) /\ IsMapNode(v) /\ segment.key \notin DOMAIN v.map

StopsAt(tree, segments, k, result) ==
  LET before == WalkFrom(tree, SubSeq(segments, 1, k - 1)) IN
  /\ IsFound(before)
  /\ WalkFrom(tree, SubSeq(segments, 1, k)) = result
  /\ result.path = Formatted(SubSeq(segments, 1, k))
  /\ result.reason = "missing" => Absent(before.found, segments[k])

LEMMA WalkStops ==
  ASSUME NEW tree, NEW segments \in Seq(Segment), ~IsFound(WalkFrom(tree, segments))
  PROVE  \E k \in 1 .. Len(segments) : StopsAt(tree, segments, k, WalkFrom(tree, segments))
<1>. DEFINE W(n) == WalkFrom(tree, SubSeq(segments, 1, n))
            S == {n \in Nat : n <= Len(segments) /\ ~IsFound(W(n)) =>
                                \E k \in 1 .. n : StopsAt(tree, segments, k, W(n))}
<1>0. /\ SubSeq(segments, 1, 0) = <<>> /\ SubSeq(segments, 1, Len(segments)) = segments
      /\ Len(segments) \in Nat
  OBVIOUS
<1>1. 0 \in S
  <2>1. W(0) = Found(tree)
    BY <1>0, WalkOfNothing, Zenon
  <2>2. IsFound(W(0))
    BY <2>1 DEF Found, IsFound
  <2>. QED
    BY <2>2
<1>2. ASSUME NEW n \in Nat, n \in S PROVE n + 1 \in S
  <2>. SUFFICES ASSUME n + 1 <= Len(segments), ~IsFound(W(n + 1))
                PROVE  \E k \in 1 .. n + 1 : StopsAt(tree, segments, k, W(n + 1))
    OBVIOUS
  <2>1. n + 1 \in 1 .. Len(segments) /\ (n + 1) - 1 = n /\ n <= Len(segments)
    OBVIOUS
  <2>2. W(n + 1) = Entered(W(n), segments, n + 1)
    BY <2>1, WalkStep
  <2>3. CASE ~IsFound(W(n))
    <3>1. PICK k \in 1 .. n : StopsAt(tree, segments, k, W(n))
      BY <1>2, <2>1, <2>3
    <3>2. W(n + 1) = W(n)
      <4>. HIDE DEF W
      <4>. QED
        BY <2>2, <2>3 DEF Entered
    <3>. QED
      BY <3>1, <3>2
  <2>4. CASE IsFound(W(n))
    <3>. DEFINE seg == segments[n + 1]
                text == Formatted(SubSeq(segments, 1, n + 1))
                v == W(n).found
    <3>1. \/ W(n + 1) = Stopped("type_mismatch", text)
          \/ W(n + 1) = Stopped("missing", text) /\ Absent(v, seg)
          \/ IsFound(W(n + 1))
      <4>. HIDE DEF W
      <4>. QED
        BY <2>2, <2>4 DEF Entered, Found, IsFound, Absent
    <3>2. W(n + 1).path = text /\ (W(n + 1).reason = "missing" => Absent(v, seg))
      BY <3>1 DEF Stopped
    <3>3. StopsAt(tree, segments, n + 1, W(n + 1))
      BY <2>1, <2>4, <3>2 DEF StopsAt
    <3>. QED
      BY <3>3
  <2>. QED
    BY <2>3, <2>4
<1>3. Nat \subseteq S
  <2>. HIDE DEF S
  <2>. QED
    BY <1>1, <1>2, NatSetInduction
<1>4. W(Len(segments)) = WalkFrom(tree, segments) /\ Len(segments) \in Nat
  BY <1>0, Zenon
<1>5. Len(segments) \in S
  <2>. HIDE DEF S
  <2>. QED
    BY <1>3, <1>4
<1>. QED
  BY <1>4, <1>5

\* A path that is read leads where its segments lead.
LEMMA NavigateDef ==
  ASSUME NEW tree, NEW path \in Seq(Token), NEW segments \in ParsePath(path)
  PROVE  /\ Navigate(tree, path) = WalkFrom(tree, segments)
         /\ segments \in Seq(Segment) /\ segments # <<>>
<1>1. ParsePath(path) = {segments} /\ segments \in Seq(Segment) /\ segments # <<>>
  BY ParsedOnce
<1>2. (CHOOSE s \in ParsePath(path) : TRUE) = segments
  BY <1>1
<1>. QED
  BY <1>1, <1>2 DEF Navigate

\* The path an error of navigate names is a path, and asking for it fails at the
\* same place for the same reason, for every tree and every path.
THEOREM NavigateReadsBack ==
  ASSUME NEW tree, NEW path \in Seq(Token),
         ~IsFound(Navigate(tree, path)), Navigate(tree, path).reason # "parse_error"
  PROVE  LET error == Navigate(tree, path) IN Navigate(tree, error.path) = error
<1>. DEFINE error == Navigate(tree, path)
<1>1. ParsePath(path) # {}
  BY DEF Navigate, Stopped
<1>2. PICK segments \in ParsePath(path) : TRUE
  BY <1>1
<1>3. error = WalkFrom(tree, segments) /\ segments \in Seq(Segment)
  BY <1>2, NavigateDef
<1>. HIDE DEF error
<1>4. ~IsFound(WalkFrom(tree, segments))
  BY <1>3 DEF error
<1>5. PICK k \in 1 .. Len(segments) : StopsAt(tree, segments, k, error)
  BY <1>3, <1>4, WalkStops
<1>. DEFINE p == SubSeq(segments, 1, k)
<1>6. WalkFrom(tree, p) = error /\ error.path = Formatted(p)
  BY <1>5 DEF StopsAt
<1>7. p \in Seq(Segment) /\ p # <<>>
  <2>1. k \in 0 .. Len(segments)
    BY <1>3
  <2>2. p \in Seq(Segment) /\ Len(p) = k
    BY <1>3, <2>1, Firsts
  <2>. QED
    BY <2>2
<1>. HIDE DEF p
<1>8. Formatted(p) \in Seq(Token) /\ ParsePath(Formatted(p)) = {p}
  BY <1>7, FormattedReadsBack
<1>9. Navigate(tree, Formatted(p)) = WalkFrom(tree, p)
  BY <1>8, NavigateDef
<1>. QED
  BY <1>6, <1>9 DEF error

\* One segment more.
LEMMA WalkAppend ==
  ASSUME NEW tree, NEW segments \in Seq(Segment), NEW segment \in Segment
  PROVE  WalkFrom(tree, Append(segments, segment))
           = Entered(WalkFrom(tree, segments), Append(segments, segment), Len(segments) + 1)
<1>. DEFINE t == Append(segments, segment)
            n == Len(segments) + 1
<1>1. t \in Seq(Segment) /\ Len(t) = n /\ n \in Nat /\ n \in 1 .. Len(t)
  OBVIOUS
<1>2. SubSeq(t, 1, n) = t /\ SubSeq(t, 1, n - 1) = segments
  <2>1. SubSeq(t, 1, Len(t)) = t
    BY <1>1, Firsts
  <2>2. \A i \in 1 .. n - 1 : t[i] = segments[i]
    OBVIOUS
  <2>3. n - 1 \in 0 .. Len(t) /\ n - 1 = Len(segments)
    BY <1>1
  <2>. DEFINE p == SubSeq(t, 1, n - 1)
  <2>. HIDE DEF t
  <2>4. p \in Seq(Segment) /\ Len(p) = n - 1 /\ \A i \in 1 .. n - 1 : p[i] = t[i]
    BY <1>1, <2>3, Firsts
  <2>5. p = segments
    <3>. HIDE DEF p
    <3>. QED
      BY <2>2, <2>3, <2>4, SeqEqual
  <2>. QED
    BY <1>1, <2>1, <2>5
<1>. HIDE DEF t, n
<1>3. WalkFrom(tree, SubSeq(t, 1, n)) = Entered(WalkFrom(tree, SubSeq(t, 1, n - 1)), t, n)
  BY <1>1, WalkStep
<1>4. WalkFrom(tree, t) = Entered(WalkFrom(tree, segments), t, n)
  BY <1>2, <1>3, Zenon
<1>. QED
  BY <1>4 DEF t, n

LEMMA FoundIsParsed ==
  ASSUME NEW tree, NEW path \in Seq(Token), NEW v, Navigate(tree, path) = Found(v)
  PROVE  \E segments \in ParsePath(path) :
            segments \in Seq(Segment) /\ WalkFrom(tree, segments) = Found(v)
<1>1. ParsePath(path) # {}
  BY DEF Navigate, Stopped, Found
<1>2. PICK segments \in ParsePath(path) : TRUE
  BY <1>1
<1>. QED
  BY <1>2, NavigateDef

\* A path that leads to a map, extended by a plain key of it, leads to the
\* key's value; one that leads to a list, by an index, to the element.
LEMMA NavigateKey ==
  ASSUME NEW tree, NEW path \in Seq(Token), NEW v, Navigate(tree, path) = Found(v),
         IsMapNode(v), NEW k \in PlainKey, k \in DOMAIN v.map
  PROVE  /\ path \o <<".">> \o k \in Seq(Token)
         /\ Navigate(tree, path \o <<".">> \o k) = Found(v.map[k])
<1>1. PICK segments \in ParsePath(path) :
         segments \in Seq(Segment) /\ WalkFrom(tree, segments) = Found(v)
  BY FoundIsParsed
<1>. DEFINE p == path \o <<".">> \o k
            t == Append(segments, Key(k))
<1>2. p \in Seq(Token) /\ ParsePath(p) = {t}
  BY ExtendedByKey
<1>3. Navigate(tree, p) = WalkFrom(tree, t)
  <2>. HIDE DEF p, t
  <2>. QED
    BY <1>2, NavigateDef
<1>4. Key(k) \in Segment /\ ~IsIndex(Key(k)) /\ Key(k).key = k
  BY DEF Segment, Key, IsIndex
<1>5. WalkFrom(tree, t) = Entered(Found(v), t, Len(segments) + 1)
  BY <1>1, <1>4, WalkAppend
<1>6. t[Len(segments) + 1] = Key(k)
  BY <1>1, <1>4
<1>7. Found(v).found = v /\ IsFound(Found(v))
  BY DEF Found, IsFound
<1>. HIDE DEF p, t
<1>8. Entered(Found(v), t, Len(segments) + 1) = Found(v.map[k])
  BY <1>4, <1>6, <1>7 DEF Entered
<1>. QED
  BY <1>2, <1>3, <1>5, <1>8 DEF p

LEMMA NavigateIndex ==
  ASSUME NEW tree, NEW path \in Seq(Token), NEW v, Navigate(tree, path) = Found(v),
         IsListNode(v), NEW n \in Nat, n < Len(v.list), n <= MaxIndex
  PROVE  /\ path \o Bracketed(n) \in Seq(Token)
         /\ Navigate(tree, path \o Bracketed(n)) = Found(v.list[n + 1])
<1>1. PICK segments \in ParsePath(path) :
         segments \in Seq(Segment) /\ WalkFrom(tree, segments) = Found(v)
  BY FoundIsParsed
<1>. DEFINE p == path \o Bracketed(n)
            t == Append(segments, Index(n))
<1>2. p \in Seq(Token) /\ ParsePath(p) = {t}
  BY ExtendedByIndex
<1>3. Navigate(tree, p) = WalkFrom(tree, t)
  <2>. HIDE DEF p, t
  <2>. QED
    BY <1>2, NavigateDef
<1>4. Index(n) \in Segment /\ IsIndex(Index(n)) /\ Index(n).index = n
  BY MaxIndexAssumption DEF Segment, Index, IsIndex
<1>5. WalkFrom(tree, t) = Entered(Found(v), t, Len(segments) + 1)
  BY <1>1, <1>4, WalkAppend
<1>6. t[Len(segments) + 1] = Index(n)
  BY <1>1, <1>4
<1>7. Found(v).found = v /\ IsFound(Found(v))
  BY DEF Found, IsFound
<1>. HIDE DEF p, t
<1>8. Entered(Found(v), t, Len(segments) + 1) = Found(v.list[n + 1])
  BY <1>4, <1>6, <1>7 DEF Entered
<1>. QED
  BY <1>2, <1>3, <1>5, <1>8 DEF p

\* The path formatTraversed writes leads where its segments lead: every node of
\* every tree that is reached over plain keys and indices can be asked for.
THEOREM FormattedLeadsThere ==
  ASSUME NEW tree, NEW segments \in Seq(Segment), segments # <<>>
  PROVE  Navigate(tree, Formatted(segments)) = WalkFrom(tree, segments)
<1>. DEFINE p == Formatted(segments)
<1>1. p \in Seq(Token) /\ ParsePath(p) = {segments}
  BY FormattedReadsBack
<1>. HIDE DEF p
<1>2. Navigate(tree, p) = WalkFrom(tree, segments)
  BY <1>1, NavigateDef
<1>. QED
  BY <1>2 DEF p

\* Four pieces, whichever two are put together first.
LEMMA ConcatFour ==
  \A p, q, r, t \in Seq(Token) :
     ((p \o q) \o r) \o t = p \o ((q \o r) \o t)
<1>. SUFFICES ASSUME NEW p \in Seq(Token), NEW q \in Seq(Token),
                     NEW r \in Seq(Token), NEW t \in Seq(Token)
              PROVE  ((p \o q) \o r) \o t = p \o ((q \o r) \o t)
  OBVIOUS
<1>. DEFINE mid == q \o r
<1>1. mid \in Seq(Token)
  BY ConcatProperties
<1>2. (p \o q) \o r = p \o mid
  BY ConcatAssociative
<1>. HIDE DEF mid
<1>3. (p \o mid) \o t = p \o (mid \o t)
  BY <1>1, ConcatAssociative, SMTT(20)
<1>4. ((p \o q) \o r) \o t = p \o (mid \o t)
  BY <1>2, <1>3, Zenon
<1>. QED
  BY <1>4 DEF mid

\* An index written piece by piece.
LEMMA BracketedAfter ==
  ASSUME NEW p \in Seq(Token), NEW n \in Nat
  PROVE  p \o <<"[">> \o Decimal(n) \o <<"]">> = p \o Bracketed(n)
<1>1. Decimal(n) \in Seq(Token)
  BY DecimalReadsBack, UnsignedNumber
<1>2. <<"[">> \in Seq(Token) /\ <<"]">> \in Seq(Token)
  BY TokenAssumption DEF Marks
<1>3. \A a, b, c \in Seq(Token) : ((p \o a) \o b) \o c = p \o ((a \o b) \o c)
  BY ConcatFour
<1>4. \A b \in Seq(Token) : ((p \o <<"[">>) \o b) \o <<"]">> = p \o ((<<"[">> \o b) \o <<"]">>)
  BY <1>2, <1>3
<1>5. ((p \o <<"[">>) \o Decimal(n)) \o <<"]">> = p \o ((<<"[">> \o Decimal(n)) \o <<"]">>)
  BY <1>1, <1>4
<1>. QED
  BY <1>5 DEF Bracketed
=============================================================================
