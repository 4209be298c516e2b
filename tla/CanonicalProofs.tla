-------------------------- MODULE CanonicalProofs --------------------------
(***************************************************************************)
(* Proofs about Canonical, for any trees and any digits, and any order of  *)
(* the tokens of keys: what a text begins with tells what it is of, where  *)
(* it ends is told by its tokens, and so the text tells the tree.          *)
(*                                                                         *)
(* An equation between two texts, with something behind each, is given a   *)
(* name (Alike and its like): lemmas take it and return it by that name.   *)
(***************************************************************************)
EXTENDS Canonical, GettersProofs

-----------------------------------------------------------------------------
(* Texts one behind the other, and rows of them.                           *)

\* Three texts, and how they may be joined.
Texts(T, a, b, c) == a \in Seq(T) /\ b \in Seq(T) /\ c \in Seq(T)
Regrouped(a, b, c) == (a \o b) \o c = a \o (b \o c)

LEMMA Regroup ==
  ASSUME NEW T, NEW a, NEW b, NEW c, Texts(T, a, b, c)
  PROVE  Regrouped(a, b, c)
<1>1. a \in Seq(T) /\ b \in Seq(T) /\ c \in Seq(T)
  BY DEF Texts
<1>2. (a \o b) \o c = a \o (b \o c)
  BY <1>1, ConcatAssociative
<1>. QED
  BY <1>2, Zenon DEF Regrouped

\* Two texts of one length, with something behind each.
LEMMA SplitSame ==
  ASSUME NEW T, NEW a \in Seq(T), NEW b \in Seq(T), NEW x \in Seq(T), NEW y \in Seq(T),
         Len(a) = Len(b), a \o x = b \o y
  PROVE  a = b /\ x = y
<1>1. Len(a \o x) = Len(a) + Len(x) /\ Len(b \o y) = Len(b) + Len(y)
      /\ Len(a) \in Nat /\ Len(x) \in Nat /\ Len(y) \in Nat
  BY ConcatProperties, LenProperties
<1>2. Len(x) = Len(y)
  BY <1>1
<1>3. ASSUME NEW i \in 1 .. Len(a) PROVE a[i] = b[i]
  <2>1. (a \o x)[i] = a[i] /\ (b \o y)[i] = b[i]
    BY <1>1
  <2>. QED
    BY <2>1
<1>4. ASSUME NEW i \in 1 .. Len(x) PROVE x[i] = y[i]
  <2>. DEFINE j == Len(a) + i
  <2>1. j \in 1 .. Len(a) + Len(x) /\ ~(j <= Len(a)) /\ j - Len(a) = i
    BY <1>1
  <2>2. (a \o x)[j] = x[j - Len(a)]
    BY <1>1, <2>1, ConcatProperties
  <2>3. (b \o y)[j] = y[j - Len(a)]
    BY <1>1, <1>2, <2>1, ConcatProperties
  <2>. QED
    BY <2>1, <2>2, <2>3
<1>5. a = b
  BY <1>3, SeqEqual
<1>6. x = y
  BY <1>2, <1>4, SeqEqual
<1>. QED
  BY <1>5, <1>6

\* The text from each piece of a row to its end.
AreTails(T, q, r) ==
  /\ r \in [0 .. Len(q) -> Seq(T)]
  /\ \A k \in 1 .. Len(q) : r[k - 1] = q[k] \o r[k]
  /\ r[Len(q)] = <<>>
  /\ FlattenSeq(q) = r[0]

LEMMA RowTails ==
  ASSUME NEW T, NEW q \in Seq(Seq(T))
  PROVE  \E r : AreTails(T, q, r)
<1>. DEFINE n == Len(q)
            D == 0 .. n
            Val == Seq(T)
            m == [k \in D |-> n - k]
            Turned(f, k) == IF k = n THEN <<>> ELSE q[k + 1] \o f[k + 1]
            Step == [k \in D |-> [f \in [D -> Val] |-> Turned(f, k)]]
<1>0. n \in Nat /\ <<>> \in Val
  OBVIOUS
<1>1. ASSUME NEW k \in D, k # n
      PROVE  k + 1 \in D /\ q[k + 1] \in Val /\ m[k + 1] < m[k]
  BY <1>0, <1>1
<1>2. m \in [D -> Nat]
  BY <1>0
<1>3. ASSUME NEW k \in D, NEW f \in [D -> Val] PROVE Turned(f, k) \in Val
  <2>1. k # n => q[k + 1] \in Val /\ f[k + 1] \in Val
    BY <1>1
  <2>. HIDE DEF n, D
  <2>. QED
    BY <1>0, <2>1
<1>4. ASSUME NEW x \in D, NEW f \in [D -> Val], NEW g \in [D -> Val],
             \A y \in D : m[y] < m[x] => f[y] = g[y]
      PROVE  Turned(f, x) = Turned(g, x)
  <2>. HIDE DEF m, D, n
  <2>. QED
    BY <1>1, <1>4
<1>5. IsRecursion(D, Val, m, Step)
  <2>1. Step \in [D -> [[D -> Val] -> Val]]
    <3>. HIDE DEF D, Val, Turned
    <3>. QED
      BY <1>3
  <2>2. ASSUME NEW x \in D, NEW f \in [D -> Val], NEW g \in [D -> Val],
               \A y \in D : m[y] < m[x] => f[y] = g[y]
        PROVE  Step[x][f] = Step[x][g]
    <3>1. Turned(f, x) = Turned(g, x)
      BY <1>4, <2>2
    <3>. HIDE DEF D, Val, Turned, m
    <3>. QED
      BY <3>1
  <2>3. Val # {}
    BY <1>0
  <2>. HIDE DEF D, Val, m, Step
  <2>. QED
    BY <1>2, <2>1, <2>2, <2>3 DEF IsRecursion
<1>6. PICK r \in [D -> Val] : \A x \in D : r[x] = Step[x][r]
  <2>. HIDE DEF D, Val, m, Step
  <2>. QED
    BY <1>5, Recursion
<1>7. \A x \in D : r[x] = Turned(r, x)
  <2>. HIDE DEF D, Val, Turned
  <2>. QED
    BY <1>6
<1>. HIDE DEF Step
<1>8. \A k \in 1 .. n : r[k - 1] = q[k] \o r[k]
  <2>. SUFFICES ASSUME NEW k \in 1 .. n PROVE r[k - 1] = q[k] \o r[k]
    OBVIOUS
  <2>1. k - 1 \in D /\ k - 1 # n /\ k - 1 + 1 = k
    BY <1>0
  <2>2. r[k - 1] = Turned(r, k - 1)
    BY <1>7, <2>1
  <2>. HIDE DEF n, D
  <2>. QED
    BY <2>1, <2>2
<1>9. r[n] = <<>>
  <2>1. n \in D
    BY <1>0
  <2>2. r[n] = Turned(r, n)
    BY <1>7, <2>1
  <2>. HIDE DEF n
  <2>. QED
    BY <2>2
<1>10. FlattenSeq(q) = r[0]
  <2>1. CASE n = 0
    <3>1. q = <<>>
      BY <2>1, EmptySeq
    <3>2. FlattenSeq(q) = q
      BY <2>1 DEF FlattenSeq
    <3>3. r[0] = <<>>
      BY <1>9, <2>1
    <3>. QED
      BY <3>1, <3>2, <3>3, Zenon
  <2>2. CASE n # 0
    <3>1. PICK v : IsFlattening(T, q, v)
      BY <2>2, FlattenRuns
    <3>. DEFINE S == {k \in Nat : k + 1 \in 1 .. n => v[k + 1] \o r[k + 1] = r[0]}
    <3>2. 0 \in S
      <4>1. 1 \in 1 .. n /\ 1 - 1 = 0 /\ 0 + 1 = 1
        BY <1>0, <2>2
      <4>2. v[1] = q[1] /\ r[1 - 1] = q[1] \o r[1]
        BY <1>8, <3>1, <4>1 DEF IsFlattening
      <4>. QED
        BY <4>1, <4>2
    <3>3. ASSUME NEW k \in Nat, k \in S PROVE k + 1 \in S
      <4>. SUFFICES ASSUME k + 2 \in 1 .. n PROVE v[k + 2] \o r[k + 2] = r[0]
        <5>1. k + 1 + 1 = k + 2 /\ k + 1 \in Nat
          OBVIOUS
        <5>. QED
          BY <5>1
      <4>. DEFINE i == k + 1
                  j == k + 2
      <4>1. i \in 1 .. n /\ j - 1 = i /\ j # 1 /\ j \in D /\ i \in D /\ j \in 1 .. n
        BY <1>0
      <4>5. v[i] \o r[i] = r[0]
        BY <3>3, <4>1
      <4>. HIDE DEF i, j
      <4>2. v[i] \in Seq(T) /\ q[j] \in Seq(T) /\ r[j] \in Seq(T)
        <5>1. v[i] \in Seq(T)
          BY <3>1, <4>1 DEF IsFlattening
        <5>2. q[j] \in Seq(T)
          BY <4>1
        <5>3. r[j] \in Seq(T)
          BY <1>6, <4>1
        <5>. QED
          BY <5>1, <5>2, <5>3
      <4>3. v[j] = v[i] \o q[j]
        BY <3>1, <4>1 DEF IsFlattening
      <4>4. r[i] = q[j] \o r[j]
        <5>1. r[j - 1] = q[j] \o r[j]
          BY <1>8, <4>1
        <5>. QED
          BY <4>1, <5>1
      <4>6. Texts(T, v[i], q[j], r[j])
        BY <4>2, Zenon DEF Texts
      <4>7. Regrouped(v[i], q[j], r[j])
        <5>. DEFINE a == v[i]
                    b == q[j]
                    c == r[j]
        <5>1. Texts(T, a, b, c)
          BY <4>6
        <5>. HIDE DEF a, b, c
        <5>2. Regrouped(a, b, c)
          BY <5>1, Regroup
        <5>. QED
          BY <5>2 DEF a, b, c
      <4>. QED
        BY <4>3, <4>4, <4>5, <4>7, Zenon DEF j, Regrouped
    <3>4. Nat \subseteq S
      <4>. HIDE DEF S
      <4>. QED
        BY <3>2, <3>3, NatSetInduction
    <3>5. n - 1 \in Nat /\ n - 1 + 1 = n /\ n \in 1 .. n
      BY <1>0, <2>2
    <3>6. v[n] \o r[n] = r[0]
      BY <3>4, <3>5
    <3>7. v[n] \in Seq(T) /\ FlattenSeq(q) = v[n]
      BY <3>1, <3>5 DEF IsFlattening
    <3>8. v[n] \o <<>> = v[n]
      BY <3>7, ConcatEmptySeq
    <3>. QED
      BY <1>9, <3>6, <3>7, <3>8, Zenon
  <2>. QED
    BY <2>1, <2>2
<1>11. AreTails(T, q, r)
  BY <1>6, <1>8, <1>9, <1>10 DEF AreTails
<1>. QED
  BY <1>11

\* A row with a text behind it: from its second piece on, what is left is one
\* of the texts C.
IsRow(T, q, A, C) ==
  /\ q \in Seq(Seq(T)) /\ C \subseteq Seq(T) /\ A \in C
  /\ \A i \in 2 .. Len(q) : \A x \in Seq(T) : q[i] \o x \in C

\* No piece of the row begins like the text behind another.
IsClosed(q, B, C) == \A i \in 1 .. Len(q) : \A x \in C : q[i] \o x # B

\* Pieces at one place are told apart, but for places in Same.
AreApart(q, p, C, Same) ==
  \A i \in 1 .. Len(q) : i <= Len(p) =>
     \A x, y \in C : q[i] \o x = p[i] \o y => i \in Same /\ x = y

\* What is left of a row behind its k-th piece.
AreRests(q, A, C, r) ==
  /\ \A k \in 1 .. Len(q) : r[k] \o A \in C
  /\ r[Len(q)] \o A = A
  /\ \A k \in 1 .. Len(q) : r[k - 1] \o A = q[k] \o (r[k] \o A)

LEMMA RowRest ==
  ASSUME NEW T, NEW q, NEW A, NEW C, IsRow(T, q, A, C), NEW r, AreTails(T, q, r)
  PROVE  AreRests(q, A, C, r)
<1>1. /\ q \in Seq(Seq(T)) /\ Len(q) \in Nat /\ A \in Seq(T) /\ A \in C
      /\ \A i \in 2 .. Len(q) : \A x \in Seq(T) : q[i] \o x \in C
  BY DEF IsRow
<1>2. /\ r \in [0 .. Len(q) -> Seq(T)] /\ r[Len(q)] = <<>>
      /\ \A k \in 1 .. Len(q) : r[k - 1] = q[k] \o r[k]
  BY DEF AreTails
<1>3. r[Len(q)] \o A = A
  BY <1>1, <1>2, ConcatEmptySeq
<1>4. ASSUME NEW k \in 1 .. Len(q) PROVE r[k - 1] \o A = q[k] \o (r[k] \o A)
  <2>. DEFINE a == q[k]
              b == r[k]
  <2>1. k \in 0 .. Len(q)
    BY <1>1
  <2>2. a \in Seq(T) /\ b \in Seq(T) /\ r[k - 1] = a \o b
    <3>1. a \in Seq(T)
      BY <1>1
    <3>2. b \in Seq(T)
      BY <1>2, <2>1
    <3>. QED
      BY <1>2, <3>1, <3>2
  <2>. HIDE DEF a, b
  <2>3. Texts(T, a, b, A)
    BY <1>1, <2>2 DEF Texts
  <2>4. Regrouped(a, b, A)
    BY <2>3, Regroup
  <2>5. r[k - 1] \o A = a \o (b \o A)
    BY <2>2, <2>4, Zenon DEF Regrouped
  <2>. QED
    BY <2>5 DEF a, b
<1>5. ASSUME NEW k \in 1 .. Len(q) PROVE r[k] \o A \in C
  <2>1. CASE k = Len(q)
    BY <1>1, <1>3, <2>1
  <2>2. CASE k # Len(q)
    <3>. DEFINE j == k + 1
                x == r[j] \o A
    <3>1. j \in 2 .. Len(q) /\ j \in 1 .. Len(q) /\ j - 1 = k /\ j \in 0 .. Len(q)
      BY <1>1, <2>2
    <3>. HIDE DEF j
    <3>2. r[j] \in Seq(T)
      BY <1>2, <3>1
    <3>3. x \in Seq(T)
      BY <1>1, <3>2
    <3>4. r[j - 1] \o A = q[j] \o x
      BY <1>4, <3>1
    <3>. HIDE DEF x
    <3>5. q[j] \o x \in C
      BY <1>1, <3>1, <3>3
    <3>. QED
      BY <3>1, <3>4, <3>5
  <2>. QED
    BY <2>1, <2>2
<1>. QED
  BY <1>3, <1>4, <1>5, Zenon DEF AreRests

\* Two rows with texts behind them that come to one text are of one length,
\* agree at every place, and so do the texts behind them.
LEMMA RowsApart ==
  ASSUME NEW T, NEW q, NEW p, NEW A, NEW B, NEW C, NEW Same,
         IsRow(T, q, A, C), IsRow(T, p, B, C), IsClosed(q, B, C), IsClosed(p, A, C),
         AreApart(q, p, C, Same), FlattenSeq(q) \o A = FlattenSeq(p) \o B
  PROVE  Len(q) = Len(p) /\ A = B /\ 1 .. Len(q) \subseteq Same
<1>1. q \in Seq(Seq(T)) /\ p \in Seq(Seq(T)) /\ A \in C /\ B \in C
  BY DEF IsRow
<1>2. PICK r : AreTails(T, q, r)
  BY <1>1, RowTails
<1>3. PICK s : AreTails(T, p, s)
  BY <1>1, RowTails
<1>4. /\ \A k \in 1 .. Len(q) : r[k] \o A \in C
      /\ r[Len(q)] \o A = A
      /\ \A k \in 1 .. Len(q) : r[k - 1] \o A = q[k] \o (r[k] \o A)
  <2>1. AreRests(q, A, C, r)
    BY <1>2, RowRest
  <2>. QED
    BY <2>1, Zenon DEF AreRests
<1>5. /\ \A k \in 1 .. Len(p) : s[k] \o B \in C
      /\ s[Len(p)] \o B = B
      /\ \A k \in 1 .. Len(p) : s[k - 1] \o B = p[k] \o (s[k] \o B)
  <2>1. AreRests(p, B, C, s)
    BY <1>3, RowRest
  <2>. QED
    BY <2>1, Zenon DEF AreRests
<1>6. r[0] \o A = s[0] \o B
  BY <1>2, <1>3 DEF AreTails
<1>. DEFINE n == Len(q)
            m == Len(p)
            R(k) == r[k] \o A
            S(k) == s[k] \o B
            Agreed == {k \in Nat : k <= n /\ k <= m => R(k) = S(k) /\ 1 .. k \subseteq Same}
<1>0. n \in Nat /\ m \in Nat
  BY <1>1
<1>7. ASSUME NEW k \in 1 .. n, k <= m, R(k - 1) = S(k - 1)
      PROVE  R(k) = S(k) /\ k \in Same
  <2>1. k \in 1 .. m
    BY <1>0, <1>7
  <2>2. R(k) \in C /\ S(k) \in C
    BY <1>4, <1>5, <2>1
  <2>3. q[k] \o R(k) = p[k] \o S(k)
    BY <1>4, <1>5, <1>7, <2>1
  <2>. HIDE DEF R, S
  <2>. QED
    BY <1>7, <2>2, <2>3 DEF AreApart
<1>8. 0 \in Agreed
  <2>1. R(0) = S(0)
    BY <1>6
  <2>. HIDE DEF R, S
  <2>. QED
    BY <2>1
<1>9. ASSUME NEW k \in Nat, k \in Agreed PROVE k + 1 \in Agreed
  <2>. SUFFICES ASSUME k + 1 <= n, k + 1 <= m PROVE R(k + 1) = S(k + 1) /\ 1 .. k + 1 \subseteq Same
    <3>. HIDE DEF R, S
    <3>. QED
      OBVIOUS
  <2>. DEFINE j == k + 1
  <2>1. k <= n /\ k <= m /\ j \in 1 .. n /\ j <= m /\ j - 1 = k /\ 1 .. j = (1 .. k) \cup {j}
    BY <1>0
  <2>2. R(k) = S(k) /\ 1 .. k \subseteq Same
    BY <1>9, <2>1
  <2>3. R(j) = S(j) /\ j \in Same
    <3>. HIDE DEF j, R, S
    <3>. QED
      BY <1>7, <2>1, <2>2
  <2>. HIDE DEF R, S
  <2>. QED
    BY <2>1, <2>2, <2>3
<1>10. Nat \subseteq Agreed
  <2>. HIDE DEF Agreed
  <2>. QED
    BY <1>8, <1>9, NatSetInduction
<1>. HIDE DEF R, S
<1>11. CASE n < m
  <2>. DEFINE j == n + 1
  <2>1. R(n) = S(n)
    BY <1>0, <1>10, <1>11
  <2>2. R(n) = A
    BY <1>4 DEF R
  <2>3. j \in 1 .. m /\ j - 1 = n
    BY <1>0, <1>11
  <2>. HIDE DEF j
  <2>4. S(j - 1) = p[j] \o S(j) /\ S(j) \in C
    BY <1>5, <2>3 DEF S
  <2>5. p[j] \o S(j) # A
    BY <2>3, <2>4 DEF IsClosed
  <2>. QED
    BY <2>1, <2>2, <2>3, <2>4, <2>5
<1>12. CASE m < n
  <2>. DEFINE j == m + 1
  <2>1. R(m) = S(m)
    BY <1>0, <1>10, <1>12
  <2>2. S(m) = B
    BY <1>5 DEF S
  <2>3. j \in 1 .. n /\ j - 1 = m
    BY <1>0, <1>12
  <2>. HIDE DEF j
  <2>4. R(j - 1) = q[j] \o R(j) /\ R(j) \in C
    BY <1>4, <2>3 DEF R
  <2>5. q[j] \o R(j) # B
    BY <2>3, <2>4 DEF IsClosed
  <2>. QED
    BY <2>1, <2>2, <2>3, <2>4, <2>5
<1>13. CASE m = n
  <2>1. R(n) = S(n) /\ 1 .. n \subseteq Same
    BY <1>0, <1>10, <1>13
  <2>2. R(n) = A /\ S(n) = B
    BY <1>4, <1>5, <1>13 DEF R, S
  <2>. QED
    BY <1>13, <2>1, <2>2
<1>. QED
  BY <1>0, <1>11, <1>12, <1>13

-----------------------------------------------------------------------------
(* The tokens of a canonical text.                                         *)

Comma == ","
Colon == ":"
Quote == "\""
Backslash == "\\"
MapOpens == "{"
MapEnds == "}"
ListOpens == "["
ListEnds == "]"
Minus == "-"
Point == "."
Exponent == "e"
Half == "5"
TrueToken == "true"
FalseToken == "false"
NullToken == "null"

JsonTokens == {Comma, Colon, Quote, Backslash, MapOpens, MapEnds, ListOpens, ListEnds, Minus, Point,
            Exponent, Half, TrueToken, FalseToken, NullToken}
Glyph == DOMAIN Code \cup DOMAIN Digit \cup JsonTokens \cup NumberForms \cup STRING

\* What may stand behind a value, and what a value that is a scalar begins with.
Ends == {Comma, MapEnds, ListEnds}
Literals == {TrueToken, FalseToken, NullToken}
Heads == DOMAIN Digit \cup {Minus, Quote} \cup Literals

Rests == {x \in Seq(Glyph) : x # <<>> => x[1] \in Ends}

LEMMA TokensApart ==
  /\ Ends \cap ({MapOpens, ListOpens, Quote, Backslash, Minus, Point, Exponent} \cup Literals) = {}
  /\ {MapOpens, ListOpens} \cap ({Quote, Minus} \cup Literals) = {}
  /\ {Quote, Minus} \cap Literals = {}
  /\ MapOpens # ListOpens /\ Quote # Backslash /\ Quote # Minus /\ Point # Exponent
  /\ Comma # ListEnds /\ Comma # MapEnds
  /\ TrueToken # FalseToken /\ TrueToken # NullToken /\ FalseToken # NullToken
BY Zenon DEF Ends, Literals, Comma, Quote, Backslash, MapOpens, MapEnds, ListOpens, ListEnds, Minus,
             Point, Exponent, TrueToken, FalseToken, NullToken

LEMMA DigitsMarkNothing ==
  /\ DOMAIN Digit \cap (Ends \cup {MapOpens, ListOpens, Quote, Minus, Point, Exponent} \cup Literals) = {}
<1>1. Ends \cup {MapOpens, ListOpens, Quote, Minus, Point, Exponent} \cup Literals
      \subseteq {"{", "}", "[", "]", ",", ":", "\"", ".", "-", "e", "true", "false", "null"}
  BY Zenon DEF Ends, Literals, Comma, Quote, MapOpens, MapEnds, ListOpens, ListEnds, Minus, Point,
               Exponent, TrueToken, FalseToken, NullToken
<1>2. DOMAIN Digit \cap {"{", "}", "[", "]", ",", ":", "\"", ".", "-", "e", "true", "false", "null"} = {}
  BY DigitAssumption, Zenon
<1>. HIDE DEF Ends, Literals, MapOpens, ListOpens, Quote, Minus, Point, Exponent
<1>. QED
  BY <1>1, <1>2, Zenon

LEMMA GlyphParts ==
  /\ JsonTokens \subseteq Glyph /\ DOMAIN Digit \subseteq Glyph /\ DOMAIN Code \subseteq Glyph
  /\ NumberForms \subseteq Glyph /\ STRING \subseteq Glyph
BY Zenon DEF Glyph

\* What a text with another behind it begins with.
LEMMA FirstOf ==
  ASSUME NEW T, NEW a \in Seq(T), a # <<>>, NEW x \in Seq(T)
  PROVE  a \o x # <<>> /\ (a \o x)[1] = a[1] /\ a \o x \in Seq(T)
<1>1. Len(a) \in Nat \ {0} /\ Len(x) \in Nat
  BY EmptySeq, LenProperties
<1>2. Len(a \o x) = Len(a) + Len(x) /\ a \o x \in Seq(T)
      /\ \A i \in 1 .. Len(a) + Len(x) : (a \o x)[i] = IF i <= Len(a) THEN a[i] ELSE x[i - Len(a)]
  BY ConcatProperties
<1>3. 1 \in 1 .. Len(a) + Len(x) /\ 1 <= Len(a)
  BY <1>1
<1>4. Len(a \o x) # 0
  BY <1>1, <1>2
<1>5. a \o x # <<>>
  BY <1>4, EmptySeq
<1>. QED
  BY <1>2, <1>3, <1>5

\* One token.
LEMMA OneToken ==
  ASSUME NEW T, NEW t \in T
  PROVE  <<t>> \in Seq(T) /\ <<t>> # <<>> /\ Len(<<t>>) = 1 /\ <<t>>[1] = t
OBVIOUS

LEMMA TokensSame ==
  ASSUME NEW T, NEW t \in T, NEW u \in T, NEW x \in Seq(T), NEW y \in Seq(T), <<t>> \o x = <<u>> \o y
  PROVE  t = u /\ x = y
<1>. DEFINE a == <<t>>
            b == <<u>>
<1>1. a \in Seq(T) /\ b \in Seq(T) /\ Len(a) = Len(b) /\ a[1] = t /\ b[1] = u /\ a \o x = b \o y
  OBVIOUS
<1>. HIDE DEF a, b
<1>2. a = b /\ x = y
  BY <1>1, SplitSame
<1>. QED
  BY <1>1, <1>2

-----------------------------------------------------------------------------
(* Strings.                                                                *)

LEMMA EscapedForm ==
  ASSUME NEW t \in Glyph
  PROVE  /\ t \in {Backslash, Quote} => EscapedChar(t) = <<Backslash, t>>
         /\ t \notin {Backslash, Quote} => EscapedChar(t) = <<t>>
         /\ EscapedChar(t) \in Seq(Glyph) /\ EscapedChar(t) # <<>>
         /\ EscapedChar(t)[1] = IF t \in {Backslash, Quote} THEN Backslash ELSE t
<1>1. /\ t \in {Backslash, Quote} => EscapedChar(t) = <<Backslash, t>>
      /\ t \notin {Backslash, Quote} => EscapedChar(t) = <<t>>
  BY Zenon DEF EscapedChar, Backslash, Quote
<1>2. Backslash \in Glyph
  BY GlyphParts DEF JsonTokens
<1>. DEFINE e == EscapedChar(t)
<1>3. CASE t \in {Backslash, Quote}
  <2>1. e = <<Backslash, t>>
    BY <1>1, <1>3
  <2>. HIDE DEF e
  <2>2. e \in Seq(Glyph) /\ e # <<>> /\ e[1] = Backslash
    BY <1>2, <2>1
  <2>. QED
    BY <1>1, <1>3, <2>2, Zenon DEF e
<1>4. CASE t \notin {Backslash, Quote}
  <2>1. e = <<t>>
    BY <1>1, <1>4
  <2>. HIDE DEF e
  <2>2. e \in Seq(Glyph) /\ e # <<>> /\ e[1] = t
    BY <2>1
  <2>. QED
    BY <1>1, <1>4, <2>2, Zenon DEF e
<1>. QED
  BY <1>3, <1>4, Zenon

EscapedAlike(t, x, u, y) == EscapedChar(t) \o x = EscapedChar(u) \o y

LEMMA EscapedApart ==
  ASSUME NEW t \in Glyph, NEW u \in Glyph, NEW x \in Seq(Glyph), NEW y \in Seq(Glyph),
         EscapedAlike(t, x, u, y)
  PROVE  t = u /\ x = y
<1>. DEFINE a == EscapedChar(t)
            b == EscapedChar(u)
<1>1. a \in Seq(Glyph) /\ a # <<>> /\ b \in Seq(Glyph) /\ b # <<>>
  BY EscapedForm
<1>2. a \o x = b \o y
  BY Zenon DEF EscapedAlike
<1>3. a[1] = b[1]
  <2>. HIDE DEF a, b
  <2>1. (a \o x)[1] = a[1] /\ (b \o y)[1] = b[1]
    BY <1>1, FirstOf
  <2>. QED
    BY <1>2, <2>1
<1>4. (t \in {Backslash, Quote} <=> u \in {Backslash, Quote})
  BY <1>3, EscapedForm
<1>5. Len(a) = Len(b) /\ (a = b => t = u)
  <2>1. CASE t \in {Backslash, Quote}
    <3>1. a = <<Backslash, t>> /\ b = <<Backslash, u>>
      BY <1>4, <2>1, EscapedForm
    <3>. QED
      BY <3>1
  <2>2. CASE t \notin {Backslash, Quote}
    <3>1. a = <<t>> /\ b = <<u>>
      BY <1>4, <2>2, EscapedForm
    <3>. QED
      BY <3>1
  <2>. QED
    BY <2>1, <2>2
<1>. HIDE DEF a, b
<1>6. a = b /\ x = y
  BY <1>1, <1>5, <1>2, SplitSame
<1>. QED
  BY <1>5, <1>6

LEMMA EscapedIsNoQuote ==
  ASSUME NEW t \in Glyph, NEW x \in Seq(Glyph), NEW y \in Seq(Glyph)
  PROVE  EscapedChar(t) \o x # <<Quote>> \o y
<1>. DEFINE a == EscapedChar(t)
            b == <<Quote>>
<1>1. a \in Seq(Glyph) /\ a # <<>> /\ a[1] # Quote
  BY EscapedForm, TokensApart
<1>2. b \in Seq(Glyph) /\ b # <<>> /\ b[1] = Quote
  <2>1. Quote \in Glyph
    BY GlyphParts DEF JsonTokens
  <2>. QED
    BY <2>1
<1>. HIDE DEF a, b
<1>3. (a \o x)[1] = a[1] /\ (b \o y)[1] = b[1]
  BY <1>1, <1>2, FirstOf
<1>. QED
  BY <1>1, <1>2, <1>3 DEF a, b

\* A row of texts is a text.
LEMMA RowIsText ==
  ASSUME NEW T, NEW q \in Seq(Seq(T))
  PROVE  FlattenSeq(q) \in Seq(T)
<1>1. PICK r : AreTails(T, q, r)
  BY RowTails
<1>2. r \in [0 .. Len(q) -> Seq(T)] /\ FlattenSeq(q) = r[0] /\ 0 \in 0 .. Len(q)
  <2>1. 0 \in 0 .. Len(q)
    OBVIOUS
  <2>. QED
    BY <1>1, <2>1 DEF AreTails
<1>. QED
  BY <1>2

\* A token, a text and a token, and what is behind them.
IsBracketed(T, t, f, u, x, text) ==
  /\ text \in Seq(T) /\ text # <<>> /\ text[1] = t
  /\ text \o x = <<t>> \o (f \o (<<u>> \o x))

LEMMA Bracketing ==
  ASSUME NEW T, NEW t \in T, NEW u \in T, NEW f \in Seq(T), NEW x \in Seq(T)
  PROVE  IsBracketed(T, t, f, u, x, <<t>> \o f \o <<u>>)
<1>. DEFINE a == <<t>>
            b == <<u>>
            h == a \o f
            g == f \o (b \o x)
<1>1. a \in Seq(T) /\ b \in Seq(T) /\ a # <<>> /\ a[1] = t
  OBVIOUS
<1>. HIDE DEF a, b
<1>2. h \in Seq(T) /\ h # <<>> /\ h[1] = t
  BY <1>1, FirstOf
<1>3. b \o x \in Seq(T)
  BY <1>1
<1>4. Regrouped(h, b, x) /\ Regrouped(a, f, b \o x)
  <2>1. Texts(T, h, b, x)
    BY <1>1, <1>2 DEF Texts
  <2>2. Texts(T, a, f, b \o x)
    BY <1>1, <1>3 DEF Texts
  <2>. QED
    BY <2>1, <2>2, Regroup
<1>5. (h \o b) \o x = a \o g
  BY <1>4, Zenon DEF Regrouped, h, g
<1>. HIDE DEF h
<1>6. h \o b \in Seq(T) /\ h \o b # <<>> /\ (h \o b)[1] = t
  BY <1>1, <1>2, FirstOf
<1>. QED
  BY <1>5, <1>6, Zenon DEF a, b, h, g, IsBracketed

EscapedText(s) == [i \in DOMAIN s |-> EscapedChar(s[i])]

LEMMA EscapedTextType ==
  ASSUME NEW s \in Seq(Glyph)
  PROVE  /\ EscapedText(s) \in Seq(Seq(Glyph)) /\ Len(EscapedText(s)) = Len(s)
         /\ \A i \in 1 .. Len(s) : EscapedText(s)[i] = EscapedChar(s[i]) /\ s[i] \in Glyph
<1>. DEFINE q == EscapedText(s)
            n == Len(s)
<1>1. n \in Nat /\ DOMAIN s = 1 .. n /\ \A i \in 1 .. n : s[i] \in Glyph
  OBVIOUS
<1>2. \A i \in 1 .. n : EscapedChar(s[i]) \in Seq(Glyph)
  BY <1>1, EscapedForm
<1>3. q = [i \in 1 .. n |-> EscapedChar(s[i])]
  BY <1>1 DEF EscapedText
<1>. HIDE DEF n
<1>4. q \in [1 .. n -> Seq(Glyph)] /\ DOMAIN q = 1 .. n
  BY <1>2, <1>3
<1>5. q \in Seq(Seq(Glyph)) /\ Len(q) = n
  <2>. HIDE DEF q
  <2>. QED
    BY <1>1, <1>4
<1>6. \A i \in 1 .. n : q[i] = EscapedChar(s[i])
  BY <1>3
<1>. QED
  BY <1>1, <1>5, <1>6 DEF n

\* A string between its quotes.
LEMMA StringForm ==
  ASSUME NEW s \in Seq(Glyph), NEW x \in Seq(Glyph)
  PROVE  /\ StringText(s) \in Seq(Glyph) /\ StringText(s) # <<>> /\ StringText(s)[1] = Quote
         /\ StringText(s) \o x = <<Quote>> \o (FlattenSeq(EscapedText(s)) \o (<<Quote>> \o x))
<1>. DEFINE f == FlattenSeq(EscapedText(s))
<1>1. f \in Seq(Glyph)
  BY EscapedTextType, RowIsText
<1>2. Quote \in Glyph
  BY GlyphParts DEF JsonTokens
<1>3. StringText(s) = <<Quote>> \o f \o <<Quote>>
  BY Zenon DEF StringText, Quote, EscapedText
<1>. HIDE DEF f
<1>4. IsBracketed(Glyph, Quote, f, Quote, x, <<Quote>> \o f \o <<Quote>>)
  BY <1>1, <1>2, Bracketing
<1>. QED
  BY <1>3, <1>4, Zenon DEF f, IsBracketed

\* A string ends at its own quote: what is escaped is told apart.
StringsAlike(s, x, t, y) == StringText(s) \o x = StringText(t) \o y

LEMMA StringsApart ==
  ASSUME NEW s \in Seq(Glyph), NEW t \in Seq(Glyph), NEW x \in Seq(Glyph), NEW y \in Seq(Glyph),
         StringsAlike(s, x, t, y)
  PROVE  s = t /\ x = y
<1>. DEFINE q == EscapedText(s)
            p == EscapedText(t)
            A == <<Quote>> \o x
            B == <<Quote>> \o y
            C == Seq(Glyph)
            Same == {i \in 1 .. Len(s) : i <= Len(t) /\ s[i] = t[i]}
<1>1. Quote \in Glyph
  BY GlyphParts DEF JsonTokens
<1>2. A \in C /\ B \in C
  BY <1>1
<1>3. q \in Seq(C) /\ Len(q) = Len(s) /\ \A i \in 1 .. Len(s) : q[i] = EscapedChar(s[i]) /\ s[i] \in Glyph
  BY EscapedTextType
<1>4. p \in Seq(C) /\ Len(p) = Len(t) /\ \A i \in 1 .. Len(t) : p[i] = EscapedChar(t[i]) /\ t[i] \in Glyph
  BY EscapedTextType
<1>5. FlattenSeq(q) \in C /\ FlattenSeq(p) \in C
  BY <1>3, <1>4, RowIsText
<1>. HIDE DEF q, p
<1>6. FlattenSeq(q) \o A = FlattenSeq(p) \o B
  <2>1. <<Quote>> \o (FlattenSeq(q) \o A) = <<Quote>> \o (FlattenSeq(p) \o B)
    BY StringForm, Zenon DEF q, p, StringsAlike
  <2>2. FlattenSeq(q) \o A \in C /\ FlattenSeq(p) \o B \in C
    <3>. HIDE DEF A, B
    <3>. QED
      BY <1>2, <1>5
  <2>. DEFINE e == FlattenSeq(q) \o A
              g == FlattenSeq(p) \o B
  <2>3. e \in Seq(Glyph) /\ g \in Seq(Glyph) /\ <<Quote>> \o e = <<Quote>> \o g
    BY <2>1, <2>2
  <2>. HIDE DEF e, g
  <2>4. e = g
    BY <1>1, <2>3, TokensSame
  <2>. QED
    BY <2>4 DEF e, g
<1>7. IsRow(Glyph, q, A, C) /\ IsRow(Glyph, p, B, C)
  <2>. HIDE DEF A, B
  <2>1. ASSUME NEW r \in Seq(C), NEW i \in 2 .. Len(r), NEW z \in C PROVE r[i] \o z \in C
    <3>1. r[i] \in C
      <4>1. i \in 1 .. Len(r)
        OBVIOUS
      <4>. QED
        BY <4>1
    <3>. QED
      BY <3>1
  <2>. QED
    BY <1>2, <1>3, <1>4, <2>1 DEF IsRow
<1>8. IsClosed(q, B, C) /\ IsClosed(p, A, C)
  <2>1. ASSUME NEW i \in 1 .. Len(q), NEW z \in C PROVE q[i] \o z # B
    <3>1. q[i] = EscapedChar(s[i]) /\ s[i] \in Glyph
      BY <1>3
    <3>. QED
      BY <3>1, EscapedIsNoQuote
  <2>2. ASSUME NEW i \in 1 .. Len(p), NEW z \in C PROVE p[i] \o z # A
    <3>1. p[i] = EscapedChar(t[i]) /\ t[i] \in Glyph
      BY <1>4
    <3>. QED
      BY <3>1, EscapedIsNoQuote
  <2>. HIDE DEF A, B, C
  <2>. QED
    BY <2>1, <2>2, Zenon DEF IsClosed
<1>9. AreApart(q, p, C, Same)
  <2>1. ASSUME NEW i \in 1 .. Len(q), i <= Len(p), NEW v \in C, NEW w \in C, q[i] \o v = p[i] \o w
        PROVE  i \in Same /\ v = w
    <3>1. i \in 1 .. Len(s) /\ i \in 1 .. Len(t) /\ i <= Len(t)
      BY <1>3, <1>4, <2>1
    <3>2. EscapedChar(s[i]) \o v = EscapedChar(t[i]) \o w /\ s[i] \in Glyph /\ t[i] \in Glyph
      BY <1>3, <1>4, <2>1, <3>1
    <3>. DEFINE a == s[i]
                b == t[i]
    <3>2a. a \in Glyph /\ b \in Glyph /\ EscapedChar(a) \o v = EscapedChar(b) \o w
      BY <3>2
    <3>2b. v \in Seq(Glyph) /\ w \in Seq(Glyph)
      OBVIOUS
    <3>2d. EscapedAlike(a, v, b, w)
      BY <3>2a, Zenon DEF EscapedAlike
    <3>2c. a = b /\ v = w
      <4>. HIDE DEF a, b, C, Same, q, p, A, B
      <4>. QED
        BY <3>2a, <3>2b, <3>2d, EscapedApart
    <3>3. s[i] = t[i] /\ v = w
      BY <3>2c
    <3>. QED
      BY <3>1, <3>3
  <2>. HIDE DEF C, Same
  <2>. QED
    BY <2>1, Zenon DEF AreApart
<1>10. Len(q) = Len(p) /\ A = B /\ 1 .. Len(q) \subseteq Same
  <2>. HIDE DEF A, B, C, Same
  <2>. QED
    BY <1>6, <1>7, <1>8, <1>9, RowsApart
<1>11. x = y
  BY <1>1, <1>10, TokensSame
<1>12. s = t
  <2>1. Len(s) = Len(t) /\ \A i \in 1 .. Len(s) : s[i] = t[i]
    BY <1>3, <1>4, <1>10
  <2>. QED
    BY <2>1, SeqEqual
<1>. QED
  BY <1>11, <1>12

-----------------------------------------------------------------------------
(* The order of keys.                                                      *)

CodeKey == Seq(DOMAIN Code)

\* The first place two keys differ at: a ends there, or has the smaller token.
PartsAt(a, b, i) ==
  /\ i \in 1 .. Len(b) /\ i <= Len(a) + 1
  /\ \A j \in 1 .. i - 1 : a[j] = b[j]
  /\ i <= Len(a) => Code[a[i]] < Code[b[i]]

LEMMA CodesApart ==
  ASSUME NEW a \in CodeKey, NEW i \in 1 .. Len(a)
  PROVE  /\ a[i] \in DOMAIN Code /\ Code[a[i]] \in Nat
         /\ \A u \in DOMAIN Code : Code[a[i]] = Code[u] => a[i] = u
<1>1. a[i] \in DOMAIN Code
  BY DEF CodeKey
<1>. QED
  BY <1>1, CodeAssumption

LEMMA KeyBeforeMeans ==
  ASSUME NEW a \in CodeKey, NEW b \in CodeKey
  PROVE  KeyBefore(a, b) <=> \E i \in Nat : PartsAt(a, b, i)
<1>0. a \in Seq(DOMAIN Code) /\ b \in Seq(DOMAIN Code) /\ Len(a) \in Nat /\ Len(b) \in Nat
      /\ DOMAIN a = 1 .. Len(a) /\ DOMAIN b = 1 .. Len(b)
  BY DEF CodeKey
<1>1. ASSUME Len(a) < Len(b), SubSeq(b, 1, Len(a)) = a
      PROVE  PartsAt(a, b, Len(a) + 1)
  <2>1. \A j \in 1 .. Len(a) : SubSeq(b, 1, Len(a))[j] = b[j]
    BY <1>0, <1>1
  <2>2. \A j \in 1 .. Len(a) : a[j] = b[j]
    BY <1>1, <2>1
  <2>. QED
    BY <1>0, <1>1, <2>2 DEF PartsAt
<1>2. ASSUME NEW i \in DOMAIN a \cap DOMAIN b, SubSeq(a, 1, i - 1) = SubSeq(b, 1, i - 1),
             Code[a[i]] < Code[b[i]]
      PROVE  i \in Nat /\ PartsAt(a, b, i)
  <2>1. \A j \in 1 .. i - 1 : SubSeq(a, 1, i - 1)[j] = a[j] /\ SubSeq(b, 1, i - 1)[j] = b[j]
    BY <1>0
  <2>2. \A j \in 1 .. i - 1 : a[j] = b[j]
    BY <1>2, <2>1
  <2>. QED
    BY <1>0, <1>2, <2>2 DEF PartsAt
<1>3. ASSUME NEW i \in Nat, PartsAt(a, b, i), i = Len(a) + 1
      PROVE  Len(a) < Len(b) /\ SubSeq(b, 1, Len(a)) = a
  <2>1. i \in 1 .. Len(b) /\ \A j \in 1 .. Len(a) : a[j] = b[j]
    BY <1>0, <1>3 DEF PartsAt
  <2>2. Len(a) < Len(b)
    BY <1>0, <1>3, <2>1
  <2>. DEFINE c == SubSeq(b, 1, Len(a))
  <2>3. c \in Seq(DOMAIN Code) /\ Len(c) = Len(a) /\ \A j \in 1 .. Len(a) : c[j] = b[j]
    BY <1>0, <2>2
  <2>. HIDE DEF c
  <2>4. c = a
    BY <1>0, <2>1, <2>3, SeqEqual
  <2>. QED
    BY <2>2, <2>4 DEF c
<1>4. ASSUME NEW i \in Nat, PartsAt(a, b, i), i # Len(a) + 1
      PROVE  /\ i \in DOMAIN a \cap DOMAIN b /\ SubSeq(a, 1, i - 1) = SubSeq(b, 1, i - 1)
             /\ Code[a[i]] < Code[b[i]]
  <2>1. i \in 1 .. Len(b) /\ i \in 1 .. Len(a) /\ (\A j \in 1 .. i - 1 : a[j] = b[j])
        /\ Code[a[i]] < Code[b[i]]
    BY <1>0, <1>4 DEF PartsAt
  <2>. DEFINE c == SubSeq(a, 1, i - 1)
              d == SubSeq(b, 1, i - 1)
  <2>2. c \in Seq(DOMAIN Code) /\ Len(c) = i - 1 /\ \A j \in 1 .. i - 1 : c[j] = a[j]
    BY <1>0, <2>1
  <2>3. d \in Seq(DOMAIN Code) /\ Len(d) = i - 1 /\ \A j \in 1 .. i - 1 : d[j] = b[j]
    BY <1>0, <2>1
  <2>. HIDE DEF c, d
  <2>4. c = d
    BY <2>1, <2>2, <2>3, SeqEqual
  <2>. QED
    BY <1>0, <2>1, <2>4 DEF c, d
<1>5. Len(a) + 1 \in Nat
  BY <1>0
<1>. QED
  BY <1>1, <1>2, <1>3, <1>4, <1>5 DEF KeyBefore

\* It is a strict order of all keys.
LEMMA KeyBeforeIrreflexive ==
  ASSUME NEW a \in CodeKey
  PROVE  ~KeyBefore(a, a)
<1>. SUFFICES ASSUME NEW i \in Nat, PartsAt(a, a, i) PROVE FALSE
  BY KeyBeforeMeans
<1>1. i \in 1 .. Len(a) /\ Code[a[i]] < Code[a[i]]
  BY DEF PartsAt
<1>. QED
  BY <1>1, CodesApart

LEMMA KeyBeforeTransitive ==
  ASSUME NEW a \in CodeKey, NEW b \in CodeKey, NEW c \in CodeKey,
         KeyBefore(a, b), KeyBefore(b, c)
  PROVE  KeyBefore(a, c)
<1>0. Len(a) \in Nat /\ Len(b) \in Nat /\ Len(c) \in Nat
  BY DEF CodeKey
<1>1. PICK i \in Nat : PartsAt(a, b, i)
  BY KeyBeforeMeans
<1>2. PICK j \in Nat : PartsAt(b, c, j)
  BY KeyBeforeMeans
<1>3. /\ i \in 1 .. Len(b) /\ i <= Len(a) + 1 /\ \A k \in 1 .. i - 1 : a[k] = b[k]
      /\ i <= Len(a) => Code[a[i]] < Code[b[i]]
  BY <1>1 DEF PartsAt
<1>4. /\ j \in 1 .. Len(c) /\ j <= Len(b) + 1 /\ \A k \in 1 .. j - 1 : b[k] = c[k]
      /\ j <= Len(b) => Code[b[j]] < Code[c[j]]
  BY <1>2 DEF PartsAt
<1>5. CASE i < j
  <2>1. i \in 1 .. Len(c) /\ i \in 1 .. j - 1 /\ b[i] = c[i] /\ \A k \in 1 .. i - 1 : a[k] = c[k]
    BY <1>0, <1>3, <1>4, <1>5
  <2>2. PartsAt(a, c, i)
    BY <1>3, <2>1 DEF PartsAt
  <2>. QED
    BY <2>2, KeyBeforeMeans
<1>6. CASE j < i
  <2>1. j \in 1 .. Len(b) /\ j <= Len(a) /\ a[j] = b[j] /\ \A k \in 1 .. j - 1 : a[k] = c[k]
    BY <1>0, <1>3, <1>4, <1>6
  <2>2. PartsAt(a, c, j)
    BY <1>0, <1>4, <2>1 DEF PartsAt
  <2>. QED
    BY <2>2, KeyBeforeMeans
<1>7. CASE i = j
  <2>1. \A k \in 1 .. i - 1 : a[k] = c[k]
    BY <1>3, <1>4, <1>7
  <2>2. ASSUME i <= Len(a) PROVE Code[a[i]] < Code[c[i]]
    <3>1. Code[a[i]] \in Nat /\ Code[b[i]] \in Nat /\ Code[c[i]] \in Nat
      BY <1>0, <1>3, <1>4, <1>7, <2>2, CodesApart
    <3>2. Code[a[i]] < Code[b[i]] /\ Code[b[i]] < Code[c[i]]
      BY <1>3, <1>4, <1>7, <2>2
    <3>. QED
      BY <3>1, <3>2
  <2>3. PartsAt(a, c, i)
    BY <1>3, <1>4, <1>7, <2>1, <2>2 DEF PartsAt
  <2>. QED
    BY <2>3, KeyBeforeMeans
<1>. QED
  BY <1>5, <1>6, <1>7

LEMMA KeyBeforeTotal ==
  ASSUME NEW a \in CodeKey, NEW b \in CodeKey, a # b
  PROVE  KeyBefore(a, b) \/ KeyBefore(b, a)
<1>0. a \in Seq(DOMAIN Code) /\ b \in Seq(DOMAIN Code) /\ Len(a) \in Nat /\ Len(b) \in Nat
  BY DEF CodeKey
<1>. DEFINE S == {i \in Nat : i \in 1 .. Len(a) /\ i \in 1 .. Len(b) /\ a[i] # b[i]}
<1>1. CASE S # {}
  <2>1. S \subseteq Nat
    OBVIOUS
  <2>2. PICK i \in S : \A j \in S : i <= j
    <3>. HIDE DEF S
    <3>. QED
      BY <1>1, <2>1, SmallestNumber
  <2>3. \A j \in 1 .. i - 1 : a[j] = b[j]
    <3>. SUFFICES ASSUME NEW j \in 1 .. i - 1, a[j] # b[j] PROVE FALSE
      OBVIOUS
    <3>1. j \in S /\ ~(i <= j)
      BY <1>0
    <3>. QED
      BY <2>2, <3>1
  <2>4. i \in 1 .. Len(a) /\ i \in 1 .. Len(b) /\ i \in Nat /\ a[i] # b[i]
    OBVIOUS
  <2>5. Code[a[i]] \in Nat /\ Code[b[i]] \in Nat /\ Code[a[i]] # Code[b[i]]
    BY <2>4, CodesApart
  <2>6. Code[a[i]] < Code[b[i]] \/ Code[b[i]] < Code[a[i]]
    BY <2>5
  <2>7. PartsAt(a, b, i) \/ PartsAt(b, a, i)
    <3>. HIDE DEF S
    <3>. QED
      BY <1>0, <2>3, <2>4, <2>6 DEF PartsAt
  <2>. QED
    BY <2>4, <2>7, KeyBeforeMeans
<1>2. CASE S = {}
  <2>1. \A i \in 1 .. Len(a) : i \in 1 .. Len(b) => a[i] = b[i]
    BY <1>2, <1>0
  <2>2. Len(a) # Len(b)
    BY <1>0, <2>1, SeqEqual
  <2>. HIDE DEF S
  <2>3. CASE Len(a) < Len(b)
    <3>1. Len(a) + 1 \in Nat /\ PartsAt(a, b, Len(a) + 1)
      BY <1>0, <2>1, <2>3 DEF PartsAt
    <3>. QED
      BY <3>1, KeyBeforeMeans
  <2>4. CASE Len(b) < Len(a)
    <3>1. Len(b) + 1 \in Nat /\ PartsAt(b, a, Len(b) + 1)
      BY <1>0, <2>1, <2>4 DEF PartsAt
    <3>. QED
      BY <3>1, KeyBeforeMeans
  <2>. QED
    BY <1>0, <2>2, <2>3, <2>4
<1>. QED
  BY <1>1, <1>2

\* A map is written with each of its keys, once.
AreKeysOf(v, s) ==
  /\ s \in Seq(DOMAIN v.map)
  /\ \A k \in DOMAIN v.map : \E i \in 1 .. Len(s) : s[i] = k

LEMMA KeysOfMap ==
  ASSUME NEW v \in Node, IsMapNode(v)
  PROVE  AreKeysOf(v, Keys(v))
<1>. DEFINE D == DOMAIN v.map
            n == Cardinality(D)
            Before(k) == {l \in D : KeyBefore(l, k)}
            rank == [k \in D |-> Cardinality(Before(k))]
            Ranks == 0 .. n - 1
<1>1. IsFiniteSet(D) /\ D \subseteq CodeKey
  BY TreeAssumption DEF CodeKey
<1>. HIDE DEF D
<1>2. n \in Nat
  BY <1>1, FS_CardinalityType
<1>3. ASSUME NEW k \in D PROVE IsFiniteSet(Before(k)) /\ Cardinality(Before(k)) \in 0 .. n - 1
  <2>1. Before(k) \in SUBSET D /\ k \notin Before(k)
    BY <1>1, KeyBeforeIrreflexive
  <2>. DEFINE B == Before(k)
  <2>. HIDE DEF B
  <2>2. IsFiniteSet(B) /\ Cardinality(B) <= n /\ (n = Cardinality(B) => D = B)
    <3>1. B \in SUBSET D
      BY <2>1 DEF B
    <3>. QED
      BY <1>1, <3>1, FS_Subset
  <2>3. D # B
    BY <2>1 DEF B
  <2>4. Cardinality(B) \in Nat
    BY <2>2, FS_CardinalityType
  <2>5. Cardinality(B) \in 0 .. n - 1
    BY <1>2, <2>2, <2>3, <2>4
  <2>. QED
    BY <2>2, <2>5 DEF B
<1>4. ASSUME NEW k \in D, NEW l \in D, KeyBefore(k, l)
      PROVE  rank[k] # rank[l]
  <2>. DEFINE B == Before(k)
              C == Before(l)
  <2>1. B \subseteq C
    <3>. SUFFICES ASSUME NEW m \in D, KeyBefore(m, k) PROVE KeyBefore(m, l)
      OBVIOUS
    <3>. QED
      BY <1>1, <1>4, KeyBeforeTransitive
  <2>2. k \in C /\ k \notin B
    BY <1>1, <1>4, KeyBeforeIrreflexive
  <2>3. IsFiniteSet(C)
    BY <1>3
  <2>4. rank[k] = Cardinality(B) /\ rank[l] = Cardinality(C)
    OBVIOUS
  <2>. HIDE DEF B, C, rank
  <2>5. Cardinality(C) = Cardinality(B) => C = B
    <3>1. B \in SUBSET C
      BY <2>1
    <3>. QED
      BY <2>3, <3>1, FS_Subset
  <2>. QED
    BY <2>2, <2>4, <2>5
<1>5. rank \in Injection(D, Ranks)
  <2>1. rank \in [D -> Ranks]
    BY <1>3
  <2>2. ASSUME NEW k \in D, NEW l \in D, rank[k] = rank[l] PROVE k = l
    <3>. HIDE DEF rank
    <3>1. k # l => KeyBefore(k, l) \/ KeyBefore(l, k)
      BY <1>1, KeyBeforeTotal
    <3>. QED
      BY <1>4, <2>2, <3>1
  <2>. HIDE DEF rank, Ranks
  <2>. QED
    BY <2>1, <2>2 DEF Injection, IsInjective
<1>6. IsFiniteSet(Ranks) /\ Cardinality(Ranks) = n
  <2>1. 0 \in Int /\ n - 1 \in Int
    BY <1>2
  <2>. DEFINE m == n - 1
  <2>2. IsFiniteSet(0 .. m) /\ Cardinality(0 .. m) = IF 0 > m THEN 0 ELSE m - 0 + 1
    <3>1. m \in Int /\ 0 \in Int
      BY <2>1
    <3>. HIDE DEF m
    <3>. QED
      BY <3>1, FS_Interval
  <2>3. (IF 0 > m THEN 0 ELSE m - 0 + 1) = n
    BY <1>2
  <2>. QED
    BY <2>2, <2>3
<1>7. rank \in Surjection(D, Ranks)
  <2>. HIDE DEF rank, Ranks
  <2>. QED
    BY <1>5, <1>6, FS_Injection
<1>8. \A r \in Ranks : \E k \in D : rank[k] = r
  <2>. HIDE DEF rank, Ranks
  <2>. QED
    BY <1>7 DEF Surjection
<1>. DEFINE At(i) == CHOOSE k \in D : Cardinality(Before(k)) = i - 1
            s == [i \in 1 .. n |-> At(i)]
<1>9. ASSUME NEW i \in 1 .. n PROVE At(i) \in D /\ rank[At(i)] = i - 1
  <2>1. i - 1 \in Ranks
    BY <1>2
  <2>2. \E k \in D : Cardinality(Before(k)) = i - 1
    <3>1. PICK k \in D : rank[k] = i - 1
      <4>. HIDE DEF rank, Ranks
      <4>. QED
        BY <1>8, <2>1
    <3>2. rank[k] = Cardinality(Before(k))
      OBVIOUS
    <3>. HIDE DEF rank, Before
    <3>. QED
      BY <3>1, <3>2
  <2>3. At(i) \in D /\ Cardinality(Before(At(i))) = i - 1
    <3>. HIDE DEF Before
    <3>. QED
      BY <2>2
  <2>. HIDE DEF At
  <2>4. rank[At(i)] = Cardinality(Before(At(i)))
    BY <2>3
  <2>. QED
    BY <2>3, <2>4
<1>10. s = Keys(v)
  BY Zenon DEF Keys, D
<1>11. s \in Seq(D) /\ Len(s) = n
  <2>. HIDE DEF At
  <2>1. s \in [1 .. n -> D] /\ DOMAIN s = 1 .. n
    BY <1>9
  <2>. HIDE DEF s
  <2>. QED
    BY <1>2, <2>1
<1>12. ASSUME NEW k \in D PROVE \E i \in 1 .. n : s[i] = k
  <2>. DEFINE i == rank[k] + 1
  <2>1. rank[k] \in Ranks
    BY <1>3
  <2>2. i \in 1 .. n /\ i - 1 = rank[k]
    <3>. HIDE DEF rank
    <3>. QED
      BY <1>2, <2>1
  <2>. HIDE DEF i, rank, At
  <2>3. At(i) \in D /\ rank[At(i)] = rank[k]
    BY <1>9, <2>2
  <2>4. At(i) = k
    BY <1>5, <2>3 DEF Injection, IsInjective
  <2>5. s[i] = At(i)
    BY <2>2
  <2>. QED
    BY <2>2, <2>4, <2>5
<1>. HIDE DEF s
<1>. QED
  BY <1>10, <1>11, <1>12 DEF AreKeysOf, D

-----------------------------------------------------------------------------
(* Numbers.                                                                *)

\* Texts that go on with no digit.
NoDigit == {x \in Seq(Glyph) : x # <<>> => x[1] \notin DOMAIN Digit}

DigitsAlike(a, x, b, y) == a \o x = b \o y

LEMMA DigitsEnd ==
  ASSUME NEW a \in Number, NEW b \in Number, NEW x \in NoDigit, NEW y \in NoDigit,
         DigitsAlike(a, x, b, y)
  PROVE  Len(a) <= Len(b)
<1>1. /\ a \in Seq(DOMAIN Digit) /\ b \in Seq(DOMAIN Digit) /\ x \in Seq(Glyph) /\ y \in Seq(Glyph)
      /\ Len(a) \in Nat /\ Len(b) \in Nat /\ Len(x) \in Nat /\ Len(y) \in Nat
  BY DEF Number, NoDigit
<1>2. a \o x = b \o y
  BY Zenon DEF DigitsAlike
<1>. SUFFICES ASSUME Len(b) < Len(a) PROVE FALSE
  BY <1>1
<1>. DEFINE i == Len(b) + 1
            A == a \o x
            B == b \o y
<1>3. /\ Len(A) = Len(a) + Len(x) /\ Len(B) = Len(b) + Len(y)
      /\ \A j \in 1 .. Len(a) + Len(x) : A[j] = IF j <= Len(a) THEN a[j] ELSE x[j - Len(a)]
      /\ \A j \in 1 .. Len(b) + Len(y) : B[j] = IF j <= Len(b) THEN b[j] ELSE y[j - Len(b)]
  BY <1>1, ConcatProperties
<1>4. A = B
  BY <1>2
<1>. HIDE DEF A, B
<1>5. i \in 1 .. Len(a) /\ i \in 1 .. Len(b) + Len(y) /\ ~(i <= Len(b)) /\ i - Len(b) = 1 /\ Len(y) # 0
  BY <1>1, <1>3, <1>4
<1>6. A[i] = a[i] /\ B[i] = y[i - Len(b)]
  BY <1>1, <1>3, <1>5
<1>7. a[i] \in DOMAIN Digit
  BY <1>1, <1>5
<1>8. y # <<>>
  BY <1>1, <1>5, EmptySeq
<1>9. y[1] \notin DOMAIN Digit
  BY <1>8 DEF NoDigit
<1>. QED
  BY <1>4, <1>5, <1>6, <1>7, <1>9

LEMMA DigitsApart ==
  ASSUME NEW a \in Number, NEW b \in Number, NEW x \in NoDigit, NEW y \in NoDigit,
         DigitsAlike(a, x, b, y)
  PROVE  a = b /\ x = y
<1>1. DigitsAlike(b, y, a, x)
  BY Zenon DEF DigitsAlike
<1>2. Len(a) <= Len(b) /\ Len(b) <= Len(a)
  BY <1>1, DigitsEnd
<1>3. a \in Seq(Glyph) /\ b \in Seq(Glyph) /\ x \in Seq(Glyph) /\ y \in Seq(Glyph)
  BY GlyphParts DEF Number, NoDigit
<1>4. Len(a) = Len(b)
  BY <1>2, <1>3
<1>5. a \o x = b \o y
  BY Zenon DEF DigitsAlike
<1>. QED
  BY <1>3, <1>4, <1>5, SplitSame

\* What may stand behind the digits of a number.
NumberMarks == {<<>>, <<Point, Half>>, <<Exponent>>}
Sign(neg) == IF neg THEN <<Minus>> ELSE <<>>
NumberText(neg, n, mark) == Sign(neg) \o Decimal(n) \o mark

LEMMA MarkFacts ==
  ASSUME NEW mark \in NumberMarks, NEW x \in Rests
  PROVE  /\ mark \in Seq(Glyph) /\ x \in Seq(Glyph) /\ mark \o x \in NoDigit
         /\ mark = <<>> => mark \o x = x
         /\ mark = <<Point, Half>> => mark \o x # <<>> /\ (mark \o x)[1] = Point
         /\ mark = <<Exponent>> => mark \o x # <<>> /\ (mark \o x)[1] = Exponent
<1>1. Point \in Glyph /\ Half \in Glyph /\ Exponent \in Glyph
  BY GlyphParts DEF JsonTokens
<1>2. x \in Seq(Glyph) /\ (x # <<>> => x[1] \in Ends)
  BY DEF Rests
<1>3. Ends \cap DOMAIN Digit = {} /\ Point \notin DOMAIN Digit /\ Exponent \notin DOMAIN Digit
  BY DigitsMarkNothing
<1>4. CASE mark = <<>>
  <2>1. mark \in Seq(Glyph)
    BY <1>4
  <2>2. mark \o x = x
    BY <1>2, <1>4, ConcatEmptySeq
  <2>3. x \in NoDigit
    BY <1>2, <1>3 DEF NoDigit
  <2>4. <<>> # <<Point, Half>> /\ <<>> # <<Exponent>>
    OBVIOUS
  <2>. QED
    BY <1>2, <1>4, <2>1, <2>2, <2>3, <2>4, Zenon
<1>5. CASE mark = <<Point, Half>>
  <2>1. mark \in Seq(Glyph) /\ mark # <<>> /\ mark[1] = Point /\ mark # <<Exponent>>
    BY <1>1, <1>5
  <2>2. mark \o x # <<>> /\ (mark \o x)[1] = Point /\ mark \o x \in Seq(Glyph)
    BY <1>2, <2>1, FirstOf
  <2>3. mark \o x \in NoDigit
    BY <1>3, <2>2 DEF NoDigit
  <2>. QED
    BY <1>2, <2>1, <2>2, <2>3
<1>6. CASE mark = <<Exponent>>
  <2>1. mark \in Seq(Glyph) /\ mark # <<>> /\ mark[1] = Exponent /\ mark # <<Point, Half>>
    BY <1>1, <1>6
  <2>2. mark \o x # <<>> /\ (mark \o x)[1] = Exponent /\ mark \o x \in Seq(Glyph)
    BY <1>2, <2>1, FirstOf
  <2>3. mark \o x \in NoDigit
    BY <1>3, <2>2 DEF NoDigit
  <2>. QED
    BY <1>2, <2>1, <2>2, <2>3
<1>. QED
  BY <1>4, <1>5, <1>6 DEF NumberMarks

MarksAlike(m, x, l, y) == m \o x = l \o y

LEMMA MarksApart ==
  ASSUME NEW m \in NumberMarks, NEW l \in NumberMarks, NEW x \in Rests, NEW y \in Rests,
         MarksAlike(m, x, l, y)
  PROVE  m = l /\ x = y
<1>. DEFINE A == m \o x
            B == l \o y
<1>1. A = B
  BY Zenon DEF MarksAlike
<1>2. /\ m \in Seq(Glyph) /\ x \in Seq(Glyph)
      /\ m = <<>> => A = x
      /\ m = <<Point, Half>> => A # <<>> /\ A[1] = Point
      /\ m = <<Exponent>> => A # <<>> /\ A[1] = Exponent
  BY MarkFacts
<1>3. /\ l \in Seq(Glyph) /\ y \in Seq(Glyph)
      /\ l = <<>> => B = y
      /\ l = <<Point, Half>> => B # <<>> /\ B[1] = Point
      /\ l = <<Exponent>> => B # <<>> /\ B[1] = Exponent
  BY MarkFacts
<1>4. /\ x # <<>> => x[1] \in Ends
      /\ y # <<>> => y[1] \in Ends
      /\ Point \notin Ends /\ Exponent \notin Ends /\ Point # Exponent
  BY TokensApart DEF Rests
<1>5. /\ m \in {<<>>, <<Point, Half>>, <<Exponent>>}
      /\ l \in {<<>>, <<Point, Half>>, <<Exponent>>}
  BY DEF NumberMarks
<1>. HIDE DEF A, B
<1>5a. m = <<>> => A = <<>> \/ A[1] \in Ends
  BY <1>2, <1>4, Zenon
<1>5b. l = <<>> => A = <<>> \/ A[1] \in Ends
  BY <1>1, <1>3, <1>4, Zenon
<1>5c. m = <<Point, Half>> => A # <<>> /\ A[1] = Point
  BY <1>2, Zenon
<1>5d. l = <<Point, Half>> => A # <<>> /\ A[1] = Point
  BY <1>1, <1>3, Zenon
<1>5e. m = <<Exponent>> => A # <<>> /\ A[1] = Exponent
  BY <1>2, Zenon
<1>5f. l = <<Exponent>> => A # <<>> /\ A[1] = Exponent
  BY <1>1, <1>3, Zenon
<1>6. m = l
  <2>1. CASE m = <<>>
    BY <1>4, <1>5, <1>5a, <1>5d, <1>5f, <2>1, Zenon
  <2>2. CASE m = <<Point, Half>>
    BY <1>4, <1>5, <1>5c, <1>5b, <1>5f, <2>2, Zenon
  <2>3. CASE m = <<Exponent>>
    BY <1>4, <1>5, <1>5e, <1>5b, <1>5d, <2>3, Zenon
  <2>. QED
    BY <1>5, <2>1, <2>2, <2>3
<1>7. x = y
  <2>1. m \o x = m \o y
    BY <1>1, <1>6 DEF A, B
  <2>2. Len(m) = Len(m)
    OBVIOUS
  <2>. QED
    BY <1>2, <1>3, <2>1, <2>2, SplitSame
<1>. QED
  BY <1>6, <1>7

\* What a number's text is made of, with something behind it.
LEMMA NumberForm ==
  ASSUME NEW neg \in BOOLEAN, NEW n \in Nat, NEW mark \in NumberMarks, NEW x \in Rests
  PROVE  /\ NumberText(neg, n, mark) \in Seq(Glyph) /\ NumberText(neg, n, mark) # <<>>
         /\ NumberText(neg, n, mark)[1] \in DOMAIN Digit \cup {Minus}
         /\ neg <=> NumberText(neg, n, mark)[1] = Minus
         /\ NumberText(neg, n, mark) \o x = Sign(neg) \o (Decimal(n) \o (mark \o x))
<1>. DEFINE d == Decimal(n)
            s == Sign(neg)
            h == s \o d
<1>1. d \in Seq(Glyph) /\ d # <<>> /\ d[1] \in DOMAIN Digit
  <2>1. d \in Number
    BY DecimalReadsBack
  <2>. HIDE DEF d
  <2>2. d \in Seq(DOMAIN Digit) /\ d # <<>>
    BY <2>1 DEF Number
  <2>3. Len(d) \in Nat \ {0}
    BY <2>2, EmptySeq
  <2>4. d[1] \in DOMAIN Digit
    BY <2>2, <2>3
  <2>. QED
    BY <2>2, <2>4, GlyphParts
<1>2. Minus \in Glyph /\ Minus \notin DOMAIN Digit
  BY GlyphParts, DigitsMarkNothing DEF JsonTokens
<1>3. mark \in Seq(Glyph) /\ x \in Seq(Glyph)
  BY MarkFacts
<1>. HIDE DEF d
<1>4. s \in Seq(Glyph) /\ h \in Seq(Glyph) /\ h # <<>> /\ h[1] \in DOMAIN Digit \cup {Minus}
      /\ (neg <=> h[1] = Minus)
  <2>1. CASE neg
    <3>. DEFINE t == <<Minus>>
    <3>1. s = t
      BY <2>1 DEF Sign
    <3>2. t \in Seq(Glyph) /\ t # <<>> /\ t[1] = Minus
      BY <1>2
    <3>. HIDE DEF t, s
    <3>3. t \o d \in Seq(Glyph) /\ t \o d # <<>> /\ (t \o d)[1] = Minus
      BY <1>1, <3>2, FirstOf
    <3>. QED
      BY <2>1, <3>1, <3>2, <3>3
  <2>2. CASE ~neg
    <3>1. s = <<>>
      BY <2>2 DEF Sign
    <3>2. s \in Seq(Glyph) /\ h = d
      <4>1. <<>> \in Seq(Glyph)
        OBVIOUS
      <4>2. <<>> \o d = d
        BY <1>1, ConcatEmptySeq
      <4>. QED
        BY <3>1, <4>1, <4>2, Zenon
    <3>. HIDE DEF s, h
    <3>3. h[1] # Minus
      BY <1>1, <1>2, <3>2
    <3>. QED
      BY <1>1, <2>2, <3>2, <3>3
  <2>. QED
    BY <2>1, <2>2
<1>. HIDE DEF s
<1>5. Regrouped(h, mark, x) /\ Regrouped(s, d, mark \o x)
  <2>1. Texts(Glyph, h, mark, x)
    BY <1>3, <1>4, Zenon DEF Texts
  <2>2. mark \o x \in Seq(Glyph)
    BY <1>3
  <2>3. Texts(Glyph, s, d, mark \o x)
    BY <1>1, <1>4, <2>2, Zenon DEF Texts
  <2>. HIDE DEF h
  <2>. QED
    BY <2>1, <2>3, Regroup
<1>6. (h \o mark) \o x = s \o (d \o (mark \o x))
  BY <1>5, Zenon DEF Regrouped
<1>. HIDE DEF h
<1>7. h \o mark \in Seq(Glyph) /\ h \o mark # <<>> /\ (h \o mark)[1] = h[1]
  BY <1>3, <1>4, FirstOf
<1>8. NumberText(neg, n, mark) = h \o mark
  BY Zenon DEF NumberText, h, s, d
<1>. QED
  BY <1>4, <1>6, <1>7, <1>8, Zenon DEF s, d

NumbersAlike(neg, n, m, x, pos, k, l, y) == NumberText(neg, n, m) \o x = NumberText(pos, k, l) \o y

LEMMA NumbersApart ==
  ASSUME NEW neg \in BOOLEAN, NEW n \in Nat, NEW m \in NumberMarks, NEW x \in Rests,
         NEW pos \in BOOLEAN, NEW k \in Nat, NEW l \in NumberMarks, NEW y \in Rests,
         NumbersAlike(neg, n, m, x, pos, k, l, y)
  PROVE  neg = pos /\ n = k /\ m = l /\ x = y
<1>. DEFINE t == NumberText(neg, n, m)
            u == NumberText(pos, k, l)
            d == Decimal(n)
            c == Decimal(k)
            a == m \o x
            b == l \o y
<1>1. t \o x = u \o y
  BY Zenon DEF NumbersAlike
<1>2. /\ t \in Seq(Glyph) /\ t # <<>> /\ (neg <=> t[1] = Minus) /\ t \o x = Sign(neg) \o (d \o a)
  BY NumberForm
<1>3. /\ u \in Seq(Glyph) /\ u # <<>> /\ (pos <=> u[1] = Minus) /\ u \o y = Sign(pos) \o (c \o b)
  BY NumberForm
<1>4. x \in Seq(Glyph) /\ y \in Seq(Glyph) /\ a \in NoDigit /\ b \in NoDigit
  BY MarkFacts
<1>5. d \in Number /\ c \in Number
  BY DecimalReadsBack
<1>. HIDE DEF t, u, d, c, a, b
<1>6. t[1] = u[1]
  <2>1. (t \o x)[1] = t[1] /\ (u \o y)[1] = u[1]
    BY <1>2, <1>3, <1>4, FirstOf
  <2>. QED
    BY <1>1, <2>1
<1>7. neg = pos
  <2>1. neg <=> pos
    BY <1>2, <1>3, <1>6
  <2>. QED
    BY <2>1
<1>8. d \in Seq(Glyph) /\ c \in Seq(Glyph) /\ a \in Seq(Glyph) /\ b \in Seq(Glyph)
  BY <1>4, <1>5, GlyphParts DEF Number, NoDigit
<1>9. Sign(neg) \o (d \o a) = Sign(neg) \o (c \o b)
  BY <1>1, <1>2, <1>3, <1>7
<1>10. d \o a = c \o b
  <2>1. Sign(neg) \in Seq(Glyph) /\ d \o a \in Seq(Glyph) /\ c \o b \in Seq(Glyph)
    <3>1. Minus \in Glyph
      BY GlyphParts DEF JsonTokens
    <3>2. Sign(neg) \in Seq(Glyph)
      BY <3>1 DEF Sign
    <3>. QED
      BY <1>8, <3>2
  <2>. DEFINE s == Sign(neg)
              v == d \o a
              w == c \o b
  <2>2. s \in Seq(Glyph) /\ v \in Seq(Glyph) /\ w \in Seq(Glyph) /\ s \o v = s \o w /\ Len(s) = Len(s)
    BY <1>9, <2>1
  <2>. HIDE DEF s, v, w
  <2>3. v = w
    BY <2>2, SplitSame
  <2>. QED
    BY <2>3 DEF v, w
<1>11. DigitsAlike(d, a, c, b)
  BY <1>10, Zenon DEF DigitsAlike
<1>12. d = c /\ a = b
  BY <1>4, <1>5, <1>11, DigitsApart
<1>13. n = k
  <2>1. Atoi(d) = n /\ Atoi(c) = k
    BY DecimalReadsBack DEF d, c
  <2>. QED
    BY <1>12, <2>1
<1>14. MarksAlike(m, x, l, y)
  BY <1>12, Zenon DEF MarksAlike, a, b
<1>15. m = l /\ x = y
  BY <1>14, MarksApart
<1>. QED
  BY <1>7, <1>13, <1>15

-----------------------------------------------------------------------------
(* Scalars.                                                                *)

SignedNumber(neg, n) == IF neg THEN -n ELSE n
FloatValue(twice) == [type |-> "float", twice |-> twice]

\* The value of a number that is written so.
NumberValue(neg, n, mark) ==
  IF mark = <<>> THEN Value("int", SignedNumber(neg, n))
  ELSE IF mark = <<Exponent>> THEN FloatValue(SignedNumber(neg, 2 * n))
  ELSE FloatValue(SignedNumber(neg, 2 * n + 1))

\* The three ways a scalar is written; there is no minus zero.
IsNumberAs(v, neg, n, mark) ==
  /\ neg \in BOOLEAN /\ n \in Nat /\ mark \in NumberMarks
  /\ neg /\ n = 0 => mark = <<Point, Half>>
  /\ ScalarText(v) = NumberText(neg, n, mark)
  /\ ScalarValue(v) = NumberValue(neg, n, mark)
IsStringAs(v, s) ==
  /\ s \in Seq(Glyph)
  /\ ScalarText(v) = StringText(s) /\ ScalarValue(v) = [type |-> "string", text |-> s]
LiteralValue(t) == IF t = NullToken THEN Null ELSE Bool(t = TrueToken)
IsLiteralAs(v, t) == t \in Literals /\ ScalarText(v) = <<t>> /\ ScalarValue(v) = LiteralValue(t)

LEMMA SignedForm ==
  ASSUME NEW n \in Int
  PROVE  Signed(n) = NumberText(n < 0, IF n < 0 THEN -n ELSE n, <<>>)
<1>. DEFINE m == IF n < 0 THEN -n ELSE n
            d == Decimal(m)
<1>1. m \in Nat
  OBVIOUS
<1>2. d \in Seq(DOMAIN Digit)
  <2>. HIDE DEF m
  <2>. QED
    BY <1>1, DecimalReadsBack DEF Number
<1>2a. d \in Seq(Glyph)
  <2>. HIDE DEF d
  <2>. QED
    BY <1>2, GlyphParts
<1>3. Minus \in Glyph
  BY GlyphParts DEF JsonTokens
<1>4. CASE n < 0
  <2>1. m = -n
    BY <1>4
  <2>2. Signed(n) = <<Minus>> \o d
    BY <1>4, <2>1, Zenon DEF Signed, Minus
  <2>3. Sign(n < 0) = <<Minus>>
    BY <1>4, Zenon DEF Sign
  <2>. DEFINE h == <<Minus>> \o d
  <2>4. h \in Seq(Glyph)
    <3>. HIDE DEF d
    <3>. QED
      BY <1>2a, <1>3
  <2>. HIDE DEF h
  <2>5. h \o <<>> = h
    BY <2>4, ConcatEmptySeq
  <2>. QED
    BY <2>2, <2>3, <2>5, Zenon DEF NumberText, h
<1>5. CASE ~(n < 0)
  <2>1. m = n
    BY <1>5
  <2>2. Signed(n) = d
    BY <1>5, <2>1, Zenon DEF Signed
  <2>3. Sign(n < 0) = <<>>
    BY <1>5, Zenon DEF Sign
  <2>. HIDE DEF d
  <2>4. <<>> \o d = d /\ d \o <<>> = d
    BY <1>2a, ConcatEmptySeq
  <2>5. Sign(n < 0) \o d \o <<>> = d
    BY <2>3, <2>4, Zenon
  <2>6. NumberText(n < 0, m, <<>>) = Sign(n < 0) \o d \o <<>>
    BY Zenon DEF NumberText, d
  <2>. QED
    BY <2>2, <2>5, <2>6, Zenon
<1>. QED
  BY <1>4, <1>5

LEMMA SignedParts ==
  ASSUME NEW n \in Int
  PROVE  /\ (n < 0) \in BOOLEAN /\ (IF n < 0 THEN -n ELSE n) \in Nat
         /\ n < 0 => (IF n < 0 THEN -n ELSE n) # 0
         /\ SignedNumber(n < 0, IF n < 0 THEN -n ELSE n) = n
BY DEF SignedNumber

LEMMA NoMarks ==
  /\ <<>> \in NumberMarks /\ <<Exponent>> \in NumberMarks /\ <<Point, Half>> \in NumberMarks
  /\ <<Exponent>> # <<>> /\ <<Point, Half>> # <<>> /\ <<Point, Half>> # <<Exponent>>
BY DEF NumberMarks

\* What is written as an integer.
LEMMA IntegerAs ==
  ASSUME NEW v, NEW n \in Int, ScalarText(v) = Signed(n), ScalarValue(v) = Value("int", n)
  PROVE  \E neg, k, mark : IsNumberAs(v, neg, k, mark)
<1>. DEFINE neg == n < 0
            k == IF n < 0 THEN -n ELSE n
<1>1. neg \in BOOLEAN /\ k \in Nat /\ (neg => k # 0) /\ SignedNumber(neg, k) = n
  BY SignedParts
<1>2. ScalarText(v) = NumberText(neg, k, <<>>)
  BY SignedForm
<1>. HIDE DEF neg, k
<1>3. NumberValue(neg, k, <<>>) = ScalarValue(v)
  BY <1>1, Zenon DEF NumberValue
<1>4. IsNumberAs(v, neg, k, <<>>)
  BY <1>1, <1>2, <1>3, NoMarks DEF IsNumberAs
<1>. QED
  BY <1>4

LEMMA FloatAs ==
  ASSUME NEW v \in Scalar, v.type = "float"
  PROVE  \E neg, k, mark : IsNumberAs(v, neg, k, mark)
<1>. DEFINE twice == v.twice
            whole == Towards0(twice)
            neg == twice < 0
            k == IF whole < 0 THEN -whole ELSE whole
            IsPlain == whole \in -MaxPlain + 1 .. MaxPlain - 1
<1>1. twice \in Int /\ v = FloatValue(twice)
  BY DEF Scalar, Nan, Null, FloatValue
<1>2. whole \in Int /\ k \in Nat /\ neg \in BOOLEAN
      /\ (IsWhole(v) => twice = 2 * whole /\ (whole < 0 <=> neg) /\ twice = SignedNumber(neg, 2 * k))
      /\ (~IsWhole(v) => twice = SignedNumber(neg, 2 * k + 1))
      /\ (neg /\ k = 0 => ~IsWhole(v))
  BY <1>1 DEF Towards0, IsWhole, SignedNumber
<1>3. ScalarText(v) = FloatText(v)
  BY Zenon DEF ScalarText
<1>4. /\ IsWhole(v) /\ IsPlain => ScalarValue(v) = Value("int", whole)
      /\ ~(IsWhole(v) /\ IsPlain) => ScalarValue(v) = v
  BY Zenon DEF ScalarValue, IsPlainFloat
<1>5. /\ ~IsWhole(v) => FloatText(v) = Sign(neg) \o Decimal(k) \o <<Point, Half>>
      /\ IsWhole(v) /\ IsPlain => FloatText(v) = Signed(whole)
      /\ IsWhole(v) /\ ~IsPlain => FloatText(v) = Signed(whole) \o <<Exponent>>
  BY Zenon DEF FloatText, IsPlainFloat, Sign, Point, Half, Exponent, Minus
<1>6. CASE IsWhole(v) /\ IsPlain
  <2>1. ScalarText(v) = Signed(whole) /\ ScalarValue(v) = Value("int", whole)
    BY <1>3, <1>4, <1>5, <1>6, Zenon
  <2>. HIDE DEF whole
  <2>. QED
    BY <1>2, <2>1, IntegerAs
<1>7. CASE IsWhole(v) /\ ~IsPlain
  <2>1. ScalarText(v) = Signed(whole) \o <<Exponent>>
    BY <1>3, <1>5, <1>7, Zenon
  <2>2. Signed(whole) = NumberText(neg, k, <<>>)
    <3>1. Signed(whole) = NumberText(whole < 0, k, <<>>)
      <4>1. whole \in Int
        BY <1>2
      <4>. HIDE DEF whole
      <4>. QED
        BY <4>1, SignedForm
    <3>2. (whole < 0) = neg
      <4>1. whole < 0 <=> neg
        BY <1>2, <1>7
      <4>. QED
        BY <4>1
    <3>. HIDE DEF whole, neg, k
    <3>. QED
      BY <3>1, <3>2, Zenon
  <2>3. NumberText(neg, k, <<>>) = Sign(neg) \o Decimal(k)
    <3>. DEFINE d == Decimal(k)
                h == Sign(neg) \o d
    <3>0. k \in Nat /\ neg \in BOOLEAN
      BY <1>2
    <3>. HIDE DEF k, neg, whole, twice
    <3>1. d \in Seq(Glyph)
      BY <3>0, DecimalReadsBack, GlyphParts DEF Number
    <3>2. Minus \in Glyph
      BY GlyphParts DEF JsonTokens
    <3>3. Sign(neg) \in Seq(Glyph)
      BY <3>2 DEF Sign
    <3>4. h \in Seq(Glyph)
      <4>. HIDE DEF d
      <4>. QED
        BY <3>1, <3>3
    <3>. HIDE DEF h
    <3>5. h \o <<>> = h
      BY <3>4, ConcatEmptySeq
    <3>. QED
      BY <3>5, Zenon DEF NumberText, h
  <2>. HIDE DEF IsPlain
  <2>4. ScalarText(v) = NumberText(neg, k, <<Exponent>>)
    <3>. HIDE DEF whole, neg, k
    <3>. QED
      BY <2>1, <2>2, <2>3, Zenon DEF NumberText
  <2>5. ScalarValue(v) = NumberValue(neg, k, <<Exponent>>)
    <3>1. ScalarValue(v) = FloatValue(twice) /\ twice = SignedNumber(neg, 2 * k)
      BY <1>1, <1>2, <1>4, <1>7, Zenon
    <3>. HIDE DEF twice, neg, k
    <3>. QED
      BY <3>1, NoMarks, Zenon DEF NumberValue
  <2>6. neg /\ k = 0 => FALSE
    BY <1>2, <1>7
  <2>7. k \in Nat /\ neg \in BOOLEAN
    BY <1>2
  <2>. HIDE DEF twice, neg, k, whole
  <2>8. IsNumberAs(v, neg, k, <<Exponent>>)
    BY <2>4, <2>5, <2>6, <2>7, NoMarks DEF IsNumberAs
  <2>. QED
    BY <2>8
<1>8. CASE ~IsWhole(v)
  <2>1. ScalarText(v) = NumberText(neg, k, <<Point, Half>>)
    BY <1>3, <1>5, <1>8, Zenon DEF NumberText
  <2>2. ScalarValue(v) = NumberValue(neg, k, <<Point, Half>>)
    <3>1. ScalarValue(v) = FloatValue(twice) /\ twice = SignedNumber(neg, 2 * k + 1)
      BY <1>1, <1>2, <1>4, <1>8, Zenon
    <3>. HIDE DEF twice, neg, k
    <3>. QED
      BY <3>1, NoMarks, Zenon DEF NumberValue
  <2>3. k \in Nat /\ neg \in BOOLEAN
    BY <1>2
  <2>. HIDE DEF twice, neg, k, whole
  <2>4. IsNumberAs(v, neg, k, <<Point, Half>>)
    BY <2>1, <2>2, <2>3, NoMarks DEF IsNumberAs
  <2>. QED
    BY <2>4
<1>. HIDE DEF IsPlain
<1>. QED
  BY <1>6, <1>7, <1>8

LEMMA SpelledType ==
  ASSUME NEW l \in Lexeme
  PROVE  Spelled(l) \in Seq(Glyph)
<1>0. ASSUME NEW n \in Int PROVE Signed(n) \in Seq(Glyph)
  <2>. DEFINE neg == n < 0
              k == IF n < 0 THEN -n ELSE n
  <2>1. neg \in BOOLEAN /\ k \in Nat /\ <<>> \in NumberMarks /\ Signed(n) = NumberText(neg, k, <<>>)
    BY SignedForm, SignedParts, NoMarks
  <2>2. <<>> \in Rests
    <3>1. <<>> \in Seq(Glyph)
      OBVIOUS
    <3>. QED
      BY <3>1, Zenon DEF Rests
  <2>. HIDE DEF neg, k
  <2>. QED
    BY <2>1, <2>2, NumberForm
<1>1. l.form \in NumberForms \cup {"word"} /\ (l.form = "word" => l.word \in STRING)
      /\ (l.form # "word" => l.n \in Int)
  BY DEF Lexeme, Words, NumberForms, UnsignedForms, FloatForms, Reachable
<1>2. CASE l.form = "word"
  <2>1. Spelled(l) = <<l.word>>
    BY <1>2, Zenon DEF Spelled
  <2>2. l.word \in Glyph
    BY <1>1, <1>2, GlyphParts
  <2>. QED
    BY <2>1, <2>2
<1>3. CASE l.form = "decimal"
  <2>1. Spelled(l) = Signed(l.n)
    BY <1>3, Zenon DEF Spelled
  <2>. QED
    BY <1>0, <1>1, <1>3, <2>1
<1>4. CASE l.form # "word" /\ l.form # "decimal"
  <2>1. Spelled(l) = <<l.form>> \o Signed(l.n)
    BY <1>4, Zenon DEF Spelled
  <2>. DEFINE s == Signed(l.n)
              f == l.form
  <2>2. s \in Seq(Glyph)
    BY <1>0, <1>1, <1>4
  <2>3. f \in Glyph
    BY <1>1, <1>4, GlyphParts
  <2>. HIDE DEF s, f
  <2>4. <<f>> \o s \in Seq(Glyph)
    BY <2>2, <2>3
  <2>. QED
    BY <2>1, <2>4 DEF s, f
<1>. QED
  BY <1>2, <1>3, <1>4

LEMMA ScalarAs ==
  ASSUME NEW v \in Scalar, v # Nan
  PROVE  \/ \E neg, n, mark : IsNumberAs(v, neg, n, mark)
         \/ \E s : IsStringAs(v, s)
         \/ \E t : IsLiteralAs(v, t)
<1>1. /\ v.type \in {"int", "int64", "uint64", "float", "string", "bool", "null"}
      /\ v.type \in {"int", "int64", "uint64"} => v.n \in Int
      /\ v.type = "string" => v.lexeme \in Lexeme
      /\ v.type = "bool" => v.b \in BOOLEAN /\ v = Bool(v.b)
      /\ v.type = "null" => v = Null
  BY WidthAssumption DEF Scalar, Nan, Null, MinInt, MaxUint, Bool
<1>2. CASE v.type \in {"int", "int64", "uint64"}
  <2>1. ScalarText(v) = Signed(v.n) /\ ScalarValue(v) = Value("int", v.n)
    BY <1>2, Zenon DEF ScalarText, ScalarValue
  <2>. QED
    BY <1>1, <1>2, <2>1, IntegerAs
<1>3. CASE v.type = "float"
  BY <1>3, FloatAs
<1>4. CASE v.type = "string"
  <2>1. ScalarText(v) = StringText(Spelled(v.lexeme))
        /\ ScalarValue(v) = [type |-> "string", text |-> Spelled(v.lexeme)]
    BY <1>4, Zenon DEF ScalarText, ScalarValue
  <2>2. IsStringAs(v, Spelled(v.lexeme))
    BY <1>1, <1>4, <2>1, SpelledType DEF IsStringAs
  <2>. QED
    BY <2>2
<1>5. CASE v.type = "bool"
  <2>1. ScalarValue(v) = v /\ ScalarText(v) = IF v.b THEN <<TrueToken>> ELSE <<FalseToken>>
    BY <1>5, Zenon DEF ScalarText, ScalarValue, TrueToken, FalseToken
  <2>. DEFINE t == IF v.b THEN TrueToken ELSE FalseToken
  <2>2. t \in Literals /\ t # NullToken /\ (t = TrueToken <=> v.b) /\ ScalarText(v) = <<t>>
    BY <1>1, <1>5, <2>1, TokensApart DEF Literals
  <2>3. (t = TrueToken) = v.b
    BY <1>1, <1>5, <2>2
  <2>. HIDE DEF t
  <2>4. LiteralValue(t) = v
    BY <1>1, <1>5, <2>2, <2>3, Zenon DEF LiteralValue
  <2>5. IsLiteralAs(v, t)
    BY <2>1, <2>2, <2>4, Zenon DEF IsLiteralAs
  <2>. QED
    BY <2>5
<1>6. CASE v.type = "null"
  <2>1. ScalarValue(v) = v /\ ScalarText(v) = <<NullToken>>
    BY <1>6, Zenon DEF ScalarText, ScalarValue, NullToken
  <2>2. LiteralValue(NullToken) = v /\ NullToken \in Literals
    BY <1>1, <1>6, Zenon DEF LiteralValue, Literals
  <2>3. IsLiteralAs(v, NullToken)
    BY <2>1, <2>2, Zenon DEF IsLiteralAs
  <2>. QED
    BY <2>3
<1>. QED
  BY <1>1, <1>2, <1>3, <1>4, <1>5, <1>6

NumberHeads == DOMAIN Digit \cup {Minus}

LEMMA HeadsApart ==
  /\ NumberHeads \cap Literals = {} /\ Quote \notin NumberHeads /\ Quote \notin Literals
  /\ NumberHeads \cup {Quote} \cup Literals = Heads
  /\ Heads \cap (Ends \cup {MapOpens, ListOpens}) = {}
<1>1. NumberHeads \cap Literals = {} /\ Quote \notin NumberHeads /\ Quote \notin Literals
  BY TokensApart, DigitsMarkNothing DEF NumberHeads
<1>2. NumberHeads \cup {Quote} \cup Literals = Heads
  BY DEF NumberHeads, Heads
<1>3. Heads \cap (Ends \cup {MapOpens, ListOpens}) = {}
  BY TokensApart, DigitsMarkNothing DEF Heads
<1>. QED
  BY <1>1, <1>2, <1>3

BeginsIn(s, H) == s \in Seq(Glyph) /\ s # <<>> /\ s[1] \in H

LEMMA NoRest == <<>> \in Rests
<1>1. <<>> \in Seq(Glyph)
  OBVIOUS
<1>. QED
  BY <1>1, Zenon DEF Rests

LEMMA NumberHead ==
  ASSUME NEW v, NEW neg, NEW n, NEW mark, IsNumberAs(v, neg, n, mark)
  PROVE  BeginsIn(ScalarText(v), NumberHeads)
<1>1. neg \in BOOLEAN /\ n \in Nat /\ mark \in NumberMarks /\ ScalarText(v) = NumberText(neg, n, mark)
  BY DEF IsNumberAs
<1>2. NumberText(neg, n, mark) \in Seq(Glyph) /\ NumberText(neg, n, mark) # <<>>
      /\ NumberText(neg, n, mark)[1] \in DOMAIN Digit \cup {Minus}
  BY <1>1, NoRest, NumberForm
<1>. QED
  BY <1>1, <1>2, Zenon DEF BeginsIn, NumberHeads

LEMMA StringHead ==
  ASSUME NEW v, NEW s, IsStringAs(v, s)
  PROVE  BeginsIn(ScalarText(v), {Quote})
<1>1. s \in Seq(Glyph) /\ ScalarText(v) = StringText(s)
  BY DEF IsStringAs
<1>2. <<>> \in Seq(Glyph)
  OBVIOUS
<1>3. StringText(s) \in Seq(Glyph) /\ StringText(s) # <<>> /\ StringText(s)[1] = Quote
  BY <1>1, <1>2, StringForm
<1>. QED
  BY <1>1, <1>3, Zenon DEF BeginsIn

LEMMA LiteralHead ==
  ASSUME NEW v, NEW t, IsLiteralAs(v, t)
  PROVE  BeginsIn(ScalarText(v), Literals)
<1>1. t \in Literals /\ ScalarText(v) = <<t>>
  BY DEF IsLiteralAs
<1>2. t \in Glyph
  BY <1>1, GlyphParts DEF Literals, JsonTokens
<1>3. <<t>> \in Seq(Glyph) /\ <<t>> # <<>> /\ <<t>>[1] = t
  BY <1>2
<1>. QED
  BY <1>1, <1>3, Zenon DEF BeginsIn

\* A scalar begins like no other value.
LEMMA ScalarHead ==
  ASSUME NEW v \in Scalar, v # Nan
  PROVE  BeginsIn(ScalarText(v), Heads)
<1>1. ASSUME NEW H, H \subseteq Heads, BeginsIn(ScalarText(v), H)
      PROVE  BeginsIn(ScalarText(v), Heads)
  BY <1>1 DEF BeginsIn
<1>2. NumberHeads \subseteq Heads /\ {Quote} \subseteq Heads /\ Literals \subseteq Heads
  BY HeadsApart
<1>3. CASE \E neg, n, mark : IsNumberAs(v, neg, n, mark)
  BY <1>1, <1>2, <1>3, NumberHead
<1>4. CASE \E s : IsStringAs(v, s)
  BY <1>1, <1>2, <1>4, StringHead
<1>5. CASE \E t : IsLiteralAs(v, t)
  BY <1>1, <1>2, <1>5, LiteralHead
<1>. QED
  BY <1>3, <1>4, <1>5, ScalarAs

\* Texts that come to one text begin alike.
Alike(s, x, t, y) == s \o x = t \o y

LEMMA BeginAlike ==
  ASSUME NEW s, NEW t, NEW G, NEW H, BeginsIn(s, G), BeginsIn(t, H),
         NEW x \in Seq(Glyph), NEW y \in Seq(Glyph), Alike(s, x, t, y)
  PROVE  s[1] \in G \cap H /\ s[1] = t[1]
<1>1. /\ s \in Seq(Glyph) /\ s # <<>> /\ s[1] \in G
      /\ t \in Seq(Glyph) /\ t # <<>> /\ t[1] \in H
  BY Zenon DEF BeginsIn
<1>2. s \o x = t \o y
  BY Zenon DEF Alike
<1>3. (s \o x)[1] = s[1] /\ (t \o y)[1] = t[1]
  BY <1>1, FirstOf
<1>4. s[1] = t[1]
  BY <1>2, <1>3
<1>. QED
  BY <1>1, <1>4

LEMMA ScalarsApart ==
  ASSUME NEW v \in Scalar, v # Nan, NEW w \in Scalar, w # Nan, NEW x \in Rests, NEW y \in Rests,
         Alike(ScalarText(v), x, ScalarText(w), y)
  PROVE  ScalarValue(v) = ScalarValue(w) /\ x = y
<1>0. x \in Seq(Glyph) /\ y \in Seq(Glyph)
  BY DEF Rests
<1>1. ASSUME NEW neg, NEW n, NEW m, IsNumberAs(v, neg, n, m), NEW pos, NEW k, NEW l, IsNumberAs(w, pos, k, l)
      PROVE  ScalarValue(v) = ScalarValue(w) /\ x = y
  <2>1. /\ neg \in BOOLEAN /\ n \in Nat /\ m \in NumberMarks
        /\ ScalarText(v) = NumberText(neg, n, m) /\ ScalarValue(v) = NumberValue(neg, n, m)
    BY <1>1 DEF IsNumberAs
  <2>2. /\ pos \in BOOLEAN /\ k \in Nat /\ l \in NumberMarks
        /\ ScalarText(w) = NumberText(pos, k, l) /\ ScalarValue(w) = NumberValue(pos, k, l)
    BY <1>1 DEF IsNumberAs
  <2>3. NumbersAlike(neg, n, m, x, pos, k, l, y)
    BY <2>1, <2>2, Zenon DEF Alike, NumbersAlike
  <2>4. neg = pos /\ n = k /\ m = l /\ x = y
    BY <2>1, <2>2, <2>3, NumbersApart
  <2>. QED
    BY <2>1, <2>2, <2>4
<1>2. ASSUME NEW s, IsStringAs(v, s), NEW t, IsStringAs(w, t)
      PROVE  ScalarValue(v) = ScalarValue(w) /\ x = y
  <2>1. /\ s \in Seq(Glyph) /\ ScalarText(v) = StringText(s)
        /\ ScalarValue(v) = [type |-> "string", text |-> s]
    BY <1>2 DEF IsStringAs
  <2>2. /\ t \in Seq(Glyph) /\ ScalarText(w) = StringText(t)
        /\ ScalarValue(w) = [type |-> "string", text |-> t]
    BY <1>2 DEF IsStringAs
  <2>3. StringsAlike(s, x, t, y)
    BY <2>1, <2>2, Zenon DEF Alike, StringsAlike
  <2>4. s = t /\ x = y
    BY <1>0, <2>1, <2>2, <2>3, StringsApart
  <2>. QED
    BY <2>1, <2>2, <2>4
<1>3. ASSUME NEW s, IsLiteralAs(v, s), NEW t, IsLiteralAs(w, t)
      PROVE  ScalarValue(v) = ScalarValue(w) /\ x = y
  <2>1. s \in Literals /\ ScalarText(v) = <<s>> /\ ScalarValue(v) = LiteralValue(s)
    BY <1>3 DEF IsLiteralAs
  <2>2. t \in Literals /\ ScalarText(w) = <<t>> /\ ScalarValue(w) = LiteralValue(t)
    BY <1>3 DEF IsLiteralAs
  <2>3. s \in Glyph /\ t \in Glyph
    BY <2>1, <2>2, GlyphParts DEF Literals, JsonTokens
  <2>4. <<s>> \o x = <<t>> \o y
    BY <2>1, <2>2, Zenon DEF Alike
  <2>5. s = t /\ x = y
    BY <1>0, <2>3, <2>4, TokensSame
  <2>. QED
    BY <2>1, <2>2, <2>5
<1>4. ASSUME NEW G, NEW H, BeginsIn(ScalarText(v), G), BeginsIn(ScalarText(w), H)
      PROVE  G \cap H # {}
  <2>. DEFINE a == ScalarText(v)
              b == ScalarText(w)
  <2>1. Alike(a, x, b, y) /\ BeginsIn(a, G) /\ BeginsIn(b, H)
    BY <1>4
  <2>. HIDE DEF a, b
  <2>2. a[1] \in G \cap H
    BY <1>0, <2>1, BeginAlike
  <2>. QED
    BY <2>2
<1>5. NumberHeads \cap Literals = {} /\ NumberHeads \cap {Quote} = {} /\ {Quote} \cap Literals = {}
  BY HeadsApart
<1>6. CASE \E neg, n, mark : IsNumberAs(v, neg, n, mark)
  <2>1. BeginsIn(ScalarText(v), NumberHeads)
    BY <1>6, NumberHead
  <2>2. ~\E s : IsStringAs(w, s)
    BY <1>4, <1>5, <2>1, StringHead
  <2>3. ~\E t : IsLiteralAs(w, t)
    BY <1>4, <1>5, <2>1, LiteralHead
  <2>. QED
    BY <1>1, <1>6, <2>2, <2>3, ScalarAs
<1>7. CASE \E s : IsStringAs(v, s)
  <2>1. BeginsIn(ScalarText(v), {Quote})
    BY <1>7, StringHead
  <2>2. ~\E neg, n, mark : IsNumberAs(w, neg, n, mark)
    <3>. SUFFICES ASSUME NEW neg, NEW n, NEW mark, IsNumberAs(w, neg, n, mark) PROVE FALSE
      OBVIOUS
    <3>1. BeginsIn(ScalarText(w), NumberHeads)
      BY NumberHead
    <3>2. {Quote} \cap NumberHeads # {}
      BY <1>4, <2>1, <3>1
    <3>. QED
      BY <1>5, <3>2
  <2>3. ~\E t : IsLiteralAs(w, t)
    BY <1>4, <1>5, <2>1, LiteralHead
  <2>. QED
    BY <1>2, <1>7, <2>2, <2>3, ScalarAs
<1>8. CASE \E t : IsLiteralAs(v, t)
  <2>1. BeginsIn(ScalarText(v), Literals)
    BY <1>8, LiteralHead
  <2>2. ~\E neg, n, mark : IsNumberAs(w, neg, n, mark)
    <3>. SUFFICES ASSUME NEW neg, NEW n, NEW mark, IsNumberAs(w, neg, n, mark) PROVE FALSE
      OBVIOUS
    <3>1. BeginsIn(ScalarText(w), NumberHeads)
      BY NumberHead
    <3>2. Literals \cap NumberHeads # {}
      BY <1>4, <2>1, <3>1
    <3>. QED
      BY <1>5, <3>2
  <2>3. ~\E s : IsStringAs(w, s)
    <3>. SUFFICES ASSUME NEW s, IsStringAs(w, s) PROVE FALSE
      OBVIOUS
    <3>1. BeginsIn(ScalarText(w), {Quote})
      BY StringHead
    <3>2. Literals \cap {Quote} # {}
      BY <1>4, <2>1, <3>1
    <3>. QED
      BY <1>5, <3>2
  <2>. QED
    BY <1>3, <1>8, <2>2, <2>3, ScalarAs
<1>. QED
  BY <1>6, <1>7, <1>8, ScalarAs

LEMMA NumberValueForms ==
  ASSUME NEW neg, NEW n, NEW m
  PROVE  LET u == NumberValue(neg, n, m) IN
         /\ u.type \in {"int", "float"}
         /\ m = <<>> => u.type = "int" /\ u.n = SignedNumber(neg, n)
         /\ m = <<Exponent>> => u.type = "float" /\ u.twice = SignedNumber(neg, 2 * n)
         /\ m = <<Point, Half>> => u.type = "float" /\ u.twice = SignedNumber(neg, 2 * n + 1)
<1>. DEFINE u == NumberValue(neg, n, m)
            a == SignedNumber(neg, n)
            b == SignedNumber(neg, 2 * n)
            c == SignedNumber(neg, 2 * n + 1)
<1>1. /\ m = <<>> => u = Value("int", a)
      /\ m = <<Exponent>> => u = FloatValue(b)
      /\ m = <<Point, Half>> => u = FloatValue(c)
      /\ u \in {Value("int", a), FloatValue(b), FloatValue(c)}
  BY NoMarks, Zenon DEF NumberValue
<1>. HIDE DEF u, a, b, c
<1>2. Value("int", a).type = "int" /\ Value("int", a).n = a
      /\ FloatValue(b).type = "float" /\ FloatValue(b).twice = b
      /\ FloatValue(c).type = "float" /\ FloatValue(c).twice = c
  BY DEF Value, FloatValue
<1>3. /\ u.type \in {"int", "float"}
      /\ m = <<>> => u.type = "int" /\ u.n = a
      /\ m = <<Exponent>> => u.type = "float" /\ u.twice = b
      /\ m = <<Point, Half>> => u.type = "float" /\ u.twice = c
  BY <1>1, <1>2, Zenon
<1>. QED
  BY <1>3, Zenon DEF u, a, b, c

LEMMA NumbersOfOneValue ==
  ASSUME NEW v, NEW neg, NEW n, NEW m, IsNumberAs(v, neg, n, m),
         NEW w, NEW pos, NEW k, NEW l, IsNumberAs(w, pos, k, l),
         ScalarValue(v) = ScalarValue(w)
  PROVE  ScalarText(v) = ScalarText(w)
<1>1. /\ neg \in BOOLEAN /\ n \in Nat /\ m \in NumberMarks /\ (neg /\ n = 0 => m = <<Point, Half>>)
      /\ ScalarText(v) = NumberText(neg, n, m) /\ ScalarValue(v) = NumberValue(neg, n, m)
  BY DEF IsNumberAs
<1>2. /\ pos \in BOOLEAN /\ k \in Nat /\ l \in NumberMarks /\ (pos /\ k = 0 => l = <<Point, Half>>)
      /\ ScalarText(w) = NumberText(pos, k, l) /\ ScalarValue(w) = NumberValue(pos, k, l)
  BY DEF IsNumberAs
<1>. DEFINE u == NumberValue(neg, n, m)
            a == NumberValue(pos, k, l)
<1>3. u = a
  BY <1>1, <1>2
<1>4. /\ m = <<>> => u.type = "int" /\ u.n = SignedNumber(neg, n)
      /\ m = <<Exponent>> => u.type = "float" /\ u.twice = SignedNumber(neg, 2 * n)
      /\ m = <<Point, Half>> => u.type = "float" /\ u.twice = SignedNumber(neg, 2 * n + 1)
  BY NumberValueForms
<1>5. /\ l = <<>> => a.type = "int" /\ a.n = SignedNumber(pos, k)
      /\ l = <<Exponent>> => a.type = "float" /\ a.twice = SignedNumber(pos, 2 * k)
      /\ l = <<Point, Half>> => a.type = "float" /\ a.twice = SignedNumber(pos, 2 * k + 1)
  BY NumberValueForms
<1>. HIDE DEF u, a
<1>6. m \in {<<>>, <<Exponent>>, <<Point, Half>>} /\ l \in {<<>>, <<Exponent>>, <<Point, Half>>}
  BY <1>1, <1>2 DEF NumberMarks
<1>7. (m = <<>> <=> l = <<>>) /\ "int" # "float"
  BY <1>3, <1>4, <1>5, <1>6, NoMarks, Zenon
<1>8. CASE m = <<>>
  <2>1. l = m /\ SignedNumber(neg, n) = SignedNumber(pos, k)
    BY <1>3, <1>4, <1>5, <1>7, <1>8, Zenon
  <2>2. ~(neg /\ n = 0) /\ ~(pos /\ k = 0)
    BY <1>1, <1>2, <1>8, <2>1, NoMarks, Zenon
  <2>3. neg = pos /\ n = k
    BY <1>1, <1>2, <2>1, <2>2 DEF SignedNumber
  <2>. QED
    BY <1>1, <1>2, <2>1, <2>3, Zenon
<1>9. CASE m # <<>>
  <2>1. m \in {<<Exponent>>, <<Point, Half>>} /\ l \in {<<Exponent>>, <<Point, Half>>}
    BY <1>6, <1>7, <1>9, Zenon
  <2>2. CASE m = <<Exponent>> /\ l = <<Exponent>>
    <3>1. SignedNumber(neg, 2 * n) = SignedNumber(pos, 2 * k)
      BY <1>3, <1>4, <1>5, <2>2, Zenon
    <3>2. ~(neg /\ n = 0) /\ ~(pos /\ k = 0)
      BY <1>1, <1>2, <2>2, NoMarks, Zenon
    <3>3. neg = pos /\ n = k
      BY <1>1, <1>2, <3>1, <3>2 DEF SignedNumber
    <3>. QED
      BY <1>1, <1>2, <2>2, <3>3, Zenon
  <2>3. CASE m = <<Point, Half>> /\ l = <<Point, Half>>
    <3>1. SignedNumber(neg, 2 * n + 1) = SignedNumber(pos, 2 * k + 1)
      BY <1>3, <1>4, <1>5, <2>3, Zenon
    <3>2. neg = pos /\ n = k
      BY <1>1, <1>2, <3>1 DEF SignedNumber
    <3>. QED
      BY <1>1, <1>2, <2>3, <3>2, Zenon
  <2>4. CASE m = <<Exponent>> /\ l = <<Point, Half>>
    <3>1. SignedNumber(neg, 2 * n) = SignedNumber(pos, 2 * k + 1)
      BY <1>3, <1>4, <1>5, <2>4, Zenon
    <3>2. FALSE
      BY <1>1, <1>2, <3>1 DEF SignedNumber
    <3>. QED
      BY <3>2
  <2>5. CASE m = <<Point, Half>> /\ l = <<Exponent>>
    <3>1. SignedNumber(neg, 2 * n + 1) = SignedNumber(pos, 2 * k)
      BY <1>3, <1>4, <1>5, <2>5, Zenon
    <3>2. FALSE
      BY <1>1, <1>2, <3>1 DEF SignedNumber
    <3>. QED
      BY <3>2
  <2>. QED
    BY <2>1, <2>2, <2>3, <2>4, <2>5, Zenon
<1>. QED
  BY <1>8, <1>9

LEMMA ValueTypes ==
  ASSUME NEW v
  PROVE  /\ \A neg, n, m : IsNumberAs(v, neg, n, m) => ScalarValue(v).type \in {"int", "float"}
         /\ \A s : IsStringAs(v, s) => ScalarValue(v).type = "string" /\ ScalarValue(v).text = s
         /\ \A t : IsLiteralAs(v, t) => ScalarValue(v).type \in {"bool", "null"}
<1>1. ASSUME NEW neg, NEW n, NEW m, IsNumberAs(v, neg, n, m) PROVE ScalarValue(v).type \in {"int", "float"}
  BY <1>1, NumberValueForms DEF IsNumberAs
<1>2. ASSUME NEW s, IsStringAs(v, s) PROVE ScalarValue(v).type = "string" /\ ScalarValue(v).text = s
  BY <1>2 DEF IsStringAs
<1>3. ASSUME NEW t, IsLiteralAs(v, t) PROVE ScalarValue(v).type \in {"bool", "null"}
  BY <1>3 DEF IsLiteralAs, LiteralValue, Null, Bool
<1>. QED
  BY <1>1, <1>2, <1>3

LEMMA LiteralsOfOneValue ==
  ASSUME NEW t \in Literals, NEW s \in Literals, LiteralValue(t) = LiteralValue(s)
  PROVE  t = s
<1>1. \A u \in Literals : /\ u = NullToken => LiteralValue(u).type = "null"
                          /\ u # NullToken => LiteralValue(u).type = "bool"
                                              /\ LiteralValue(u).b = (u = TrueToken)
  BY DEF LiteralValue, Null, Bool
<1>2. (t = NullToken <=> s = NullToken)
  BY <1>1
<1>3. t # NullToken => (t = TrueToken <=> s = TrueToken)
  BY <1>1, <1>2
<1>. QED
  BY <1>2, <1>3 DEF Literals

\* Scalars of one value are written alike.
LEMMA ScalarsOfOneValue ==
  ASSUME NEW v \in Scalar, v # Nan, NEW w \in Scalar, w # Nan, ScalarValue(v) = ScalarValue(w)
  PROVE  ScalarText(v) = ScalarText(w)
<1>. DEFINE u == ScalarValue(v).type
<1>1. /\ (\E neg, n, m : IsNumberAs(v, neg, n, m)) => u \in {"int", "float"}
      /\ (\E neg, n, m : IsNumberAs(w, neg, n, m)) => u \in {"int", "float"}
      /\ (\E s : IsStringAs(v, s)) => u = "string"
      /\ (\E s : IsStringAs(w, s)) => u = "string"
      /\ (\E t : IsLiteralAs(v, t)) => u \in {"bool", "null"}
      /\ (\E t : IsLiteralAs(w, t)) => u \in {"bool", "null"}
  BY ValueTypes
<1>. HIDE DEF u
<1>2. CASE u \in {"int", "float"}
  <2>1. \E neg, n, m : IsNumberAs(v, neg, n, m)
    BY <1>1, <1>2, ScalarAs
  <2>2. \E neg, n, m : IsNumberAs(w, neg, n, m)
    BY <1>1, <1>2, ScalarAs
  <2>. QED
    BY <2>1, <2>2, NumbersOfOneValue
<1>3. CASE u = "string"
  <2>1. PICK s : IsStringAs(v, s)
    BY <1>1, <1>3, ScalarAs
  <2>2. PICK t : IsStringAs(w, t)
    BY <1>1, <1>3, ScalarAs
  <2>3. s = t
    BY <2>1, <2>2, ValueTypes
  <2>. QED
    BY <2>1, <2>2, <2>3 DEF IsStringAs
<1>4. CASE u \in {"bool", "null"}
  <2>1. PICK s : IsLiteralAs(v, s)
    BY <1>1, <1>4, ScalarAs
  <2>2. PICK t : IsLiteralAs(w, t)
    BY <1>1, <1>4, ScalarAs
  <2>3. s \in Literals /\ t \in Literals /\ LiteralValue(s) = LiteralValue(t)
        /\ ScalarText(v) = <<s>> /\ ScalarText(w) = <<t>>
    BY <2>1, <2>2 DEF IsLiteralAs
  <2>4. s = t
    BY <2>3, LiteralsOfOneValue
  <2>. QED
    BY <2>3, <2>4
<1>. QED
  BY <1>1, <1>2, <1>3, <1>4, ScalarAs

-----------------------------------------------------------------------------
(* Lists and maps: texts between commas.                                   *)

\* What a value begins with.
Openers == Heads \cup {MapOpens, ListOpens}

LEMMA OpenersAndEnds == Openers \cap Ends = {} /\ Comma \in Ends /\ {MapEnds, ListEnds} \subseteq Ends
BY HeadsApart, TokensApart DEF Openers, Ends

\* A text with a token before it.
LEMMA TokenBefore ==
  ASSUME NEW t \in Glyph, NEW x \in Seq(Glyph)
  PROVE  <<t>> \o x \in Seq(Glyph) /\ <<t>> \o x # <<>> /\ (<<t>> \o x)[1] = t
<1>. DEFINE a == <<t>>
<1>1. a \in Seq(Glyph) /\ a # <<>> /\ a[1] = t
  OBVIOUS
<1>. HIDE DEF a
<1>2. a \o x # <<>> /\ (a \o x)[1] = a[1] /\ a \o x \in Seq(Glyph)
  BY <1>1, FirstOf
<1>. QED
  BY <1>1, <1>2 DEF a

LEMMA EndsAreRests ==
  ASSUME NEW t \in Ends, NEW x \in Seq(Glyph)
  PROVE  t \in Glyph /\ <<t>> \o x \in Rests
<1>1. t \in Glyph
  BY GlyphParts DEF Ends, JsonTokens
<1>. DEFINE a == <<t>> \o x
<1>2. a \in Seq(Glyph) /\ a # <<>> /\ a[1] = t
  BY <1>1, TokenBefore
<1>. HIDE DEF a
<1>3. a \in Rests
  BY <1>2 DEF Rests
<1>. QED
  BY <1>1, <1>3 DEF a

\* The pieces of a list's or a map's text.
Separated(texts) == [i \in DOMAIN texts |-> (IF i > 1 THEN <<Comma>> ELSE <<>>) \o texts[i]]
AreMembers(texts) ==
  /\ texts \in Seq(Seq(Glyph))
  /\ \A i \in 1 .. Len(texts) : BeginsIn(texts[i], Openers)

LEMMA SeparatedFacts ==
  ASSUME NEW s \in Seq(Seq(Glyph))
  PROVE  /\ Joined(s) = FlattenSeq(Separated(s))
         /\ Separated(s) \in Seq(Seq(Glyph)) /\ Len(Separated(s)) = Len(s)
         /\ \A i \in 1 .. Len(s) :
               /\ s[i] \in Seq(Glyph)
               /\ i = 1 => Separated(s)[i] = s[i]
               /\ i # 1 => Separated(s)[i] = <<Comma>> \o s[i]
<1>. DEFINE n == Len(s)
            q == Separated(s)
<1>1. n \in Nat /\ DOMAIN s = 1 .. n /\ \A i \in 1 .. n : s[i] \in Seq(Glyph)
  OBVIOUS
<1>2. Joined(s) = FlattenSeq(q)
  BY Zenon DEF Joined, Separated, Comma
<1>. HIDE DEF n
<1>3. q = [i \in 1 .. n |-> (IF i > 1 THEN <<Comma>> ELSE <<>>) \o s[i]]
  BY <1>1 DEF Separated
<1>4. Comma \in Glyph
  BY GlyphParts DEF JsonTokens
<1>. HIDE DEF q
<1>5. ASSUME NEW i \in 1 .. n
      PROVE  /\ i = 1 => q[i] = s[i]
             /\ i # 1 => q[i] = <<Comma>> \o s[i]
             /\ q[i] \in Seq(Glyph)
  <2>1. q[i] = (IF i > 1 THEN <<Comma>> ELSE <<>>) \o s[i]
    BY <1>3
  <2>. DEFINE a == s[i]
  <2>2. a \in Seq(Glyph)
    BY <1>1
  <2>. HIDE DEF a
  <2>3. <<>> \o a = a /\ <<Comma>> \o a \in Seq(Glyph)
    BY <1>4, <2>2, ConcatEmptySeq, TokenBefore
  <2>4. (i = 1 => ~(i > 1)) /\ (i # 1 => i > 1)
    BY <1>1
  <2>5. CASE i = 1
    <3>1. q[i] = <<>> \o a
      BY <2>1, <2>4, <2>5, Zenon DEF a
    <3>. QED
      BY <2>2, <2>3, <2>5, <3>1, Zenon DEF a
  <2>6. CASE i # 1
    <3>1. q[i] = <<Comma>> \o a
      BY <2>1, <2>4, <2>6, Zenon DEF a
    <3>. QED
      BY <2>2, <2>3, <2>6, <3>1, Zenon DEF a
  <2>. QED
    BY <2>5, <2>6, Zenon
<1>6. DOMAIN q = 1 .. n
  BY <1>3
<1>7. q \in [1 .. n -> Seq(Glyph)]
  <2>1. q = [i \in 1 .. n |-> q[i]]
    BY <1>3
  <2>. QED
    BY <1>5, <2>1
<1>8. q \in Seq(Seq(Glyph)) /\ Len(q) = n
  BY <1>1, <1>6, <1>7
<1>. QED
  BY <1>1, <1>2, <1>5, <1>8 DEF n, q

LEMMA JoinedType ==
  ASSUME NEW s \in Seq(Seq(Glyph))
  PROVE  Joined(s) \in Seq(Glyph)
BY SeparatedFacts, RowIsText

\* A row of members, with what closes it behind.
LEMMA MembersRow ==
  ASSUME NEW s, AreMembers(s), NEW A \in Rests
  PROVE  IsRow(Glyph, Separated(s), A, Rests)
<1>. DEFINE q == Separated(s)
<1>1. s \in Seq(Seq(Glyph))
  BY DEF AreMembers
<1>2. q \in Seq(Seq(Glyph)) /\ Len(q) = Len(s) /\ Len(s) \in Nat
      /\ \A i \in 1 .. Len(s) : s[i] \in Seq(Glyph) /\ (i # 1 => q[i] = <<Comma>> \o s[i])
  BY <1>1, SeparatedFacts
<1>. HIDE DEF q
<1>3. ASSUME NEW i \in 2 .. Len(q), NEW x \in Seq(Glyph) PROVE q[i] \o x \in Rests
  <2>. DEFINE a == s[i]
              b == q[i]
  <2>1. i \in 1 .. Len(s) /\ i # 1
    BY <1>2
  <2>2. a \in Seq(Glyph) /\ b = <<Comma>> \o a
    BY <1>2, <2>1
  <2>. HIDE DEF a, b
  <2>3. Comma \in Glyph /\ Comma \in Ends
    BY GlyphParts DEF JsonTokens, Ends
  <2>4. b \in Seq(Glyph) /\ b # <<>> /\ b[1] = Comma
    BY <2>2, <2>3, TokenBefore
  <2>5. b \o x # <<>> /\ (b \o x)[1] = Comma /\ b \o x \in Seq(Glyph)
    BY <2>4, FirstOf
  <2>6. b \o x \in Rests
    BY <2>3, <2>5 DEF Rests
  <2>. QED
    BY <2>6 DEF b
<1>4. Rests \subseteq Seq(Glyph)
  BY DEF Rests
<1>. QED
  BY <1>2, <1>3, <1>4, Zenon DEF IsRow, q

\* No member begins like what closes the row.
LEMMA MembersClosed ==
  ASSUME NEW s, AreMembers(s), NEW E \in {MapEnds, ListEnds}, NEW y \in Seq(Glyph)
  PROVE  IsClosed(Separated(s), <<E>> \o y, Rests)
<1>. DEFINE q == Separated(s)
            B == <<E>> \o y
<1>1. s \in Seq(Seq(Glyph))
  BY DEF AreMembers
<1>2. q \in Seq(Seq(Glyph)) /\ Len(q) = Len(s) /\ Len(s) \in Nat
      /\ \A i \in 1 .. Len(s) : /\ s[i] \in Seq(Glyph) /\ (i = 1 => q[i] = s[i])
                                /\ (i # 1 => q[i] = <<Comma>> \o s[i])
  BY <1>1, SeparatedFacts
<1>3. E \in Glyph /\ E \in Ends /\ E # Comma
  BY GlyphParts, TokensApart DEF JsonTokens, Ends
<1>4. B \in Seq(Glyph) /\ B # <<>> /\ B[1] = E
  BY <1>3, TokenBefore
<1>. HIDE DEF q, B
<1>5. ASSUME NEW i \in 1 .. Len(q), NEW x \in Rests PROVE q[i] \o x # B
  <2>. DEFINE b == q[i]
              a == s[i]
  <2>1. x \in Seq(Glyph) /\ i \in 1 .. Len(s)
    BY <1>2 DEF Rests
  <2>2. BeginsIn(a, Openers)
    BY <2>1 DEF AreMembers
  <2>3. a \in Seq(Glyph) /\ (i = 1 => b = a) /\ (i # 1 => b = <<Comma>> \o a)
    BY <1>2, <2>1
  <2>4. Comma \in Glyph
    BY GlyphParts DEF JsonTokens
  <2>. HIDE DEF a, b
  <2>5. b \in Seq(Glyph) /\ b # <<>> /\ b[1] # E
    <3>1. CASE i = 1
      <4>1. a # <<>> /\ a[1] \in Openers
        BY <2>2 DEF BeginsIn
      <4>2. Openers \cap Ends = {}
        BY OpenersAndEnds
      <4>. QED
        BY <1>3, <2>3, <3>1, <4>1, <4>2
    <3>2. CASE i # 1
      <4>1. <<Comma>> \o a \in Seq(Glyph) /\ <<Comma>> \o a # <<>> /\ (<<Comma>> \o a)[1] = Comma
        BY <2>3, <2>4, TokenBefore
      <4>. QED
        BY <1>3, <2>3, <3>2, <4>1
    <3>. QED
      BY <3>1, <3>2
  <2>6. (b \o x)[1] = b[1]
    BY <2>1, <2>5, FirstOf
  <2>7. b \o x # B
    BY <1>4, <2>5, <2>6
  <2>. QED
    BY <2>7 DEF b
<1>. QED
  BY <1>5, Zenon DEF IsClosed, q, B

\* Members at one place are told apart, but for places in Same.
MembersApart(s, t, Same) ==
  \A i \in 1 .. Len(s) : i <= Len(t) =>
     \A x, y \in Rests : Alike(s[i], x, t[i], y) => i \in Same /\ x = y

LEMMA SeparatedApart ==
  ASSUME NEW s, AreMembers(s), NEW t, AreMembers(t), NEW Same, MembersApart(s, t, Same)
  PROVE  AreApart(Separated(s), Separated(t), Rests, Same)
<1>. DEFINE q == Separated(s)
            p == Separated(t)
<1>1. s \in Seq(Seq(Glyph)) /\ t \in Seq(Seq(Glyph)) /\ Len(s) \in Nat /\ Len(t) \in Nat
  BY DEF AreMembers
<1>2. q \in Seq(Seq(Glyph)) /\ Len(q) = Len(s)
      /\ \A i \in 1 .. Len(s) : /\ s[i] \in Seq(Glyph) /\ (i = 1 => q[i] = s[i])
                                /\ (i # 1 => q[i] = <<Comma>> \o s[i])
  BY <1>1, SeparatedFacts
<1>3. p \in Seq(Seq(Glyph)) /\ Len(p) = Len(t)
      /\ \A i \in 1 .. Len(t) : /\ t[i] \in Seq(Glyph) /\ (i = 1 => p[i] = t[i])
                                /\ (i # 1 => p[i] = <<Comma>> \o t[i])
  BY <1>1, SeparatedFacts
<1>. HIDE DEF q, p
<1>4. ASSUME NEW i \in 1 .. Len(q), i <= Len(p), NEW x \in Rests, NEW y \in Rests, q[i] \o x = p[i] \o y
      PROVE  i \in Same /\ x = y
  <2>. DEFINE a == s[i]
              b == t[i]
              c == q[i]
              d == p[i]
  <2>1. i \in 1 .. Len(s) /\ i \in 1 .. Len(t) /\ i <= Len(t)
    BY <1>1, <1>2, <1>3, <1>4
  <2>2. a \in Seq(Glyph) /\ (i = 1 => c = a) /\ (i # 1 => c = <<Comma>> \o a)
    BY <1>2, <2>1
  <2>3. b \in Seq(Glyph) /\ (i = 1 => d = b) /\ (i # 1 => d = <<Comma>> \o b)
    BY <1>3, <2>1
  <2>4. c \o x = d \o y
    BY <1>4
  <2>5. x \in Seq(Glyph) /\ y \in Seq(Glyph) /\ Comma \in Glyph
    BY GlyphParts DEF Rests, JsonTokens
  <2>6. Alike(a, x, b, y) => i \in Same /\ x = y
    BY <2>1 DEF MembersApart
  <2>. HIDE DEF a, b, c, d
  <2>7. a \o x = b \o y
    <3>1. CASE i = 1
      BY <2>2, <2>3, <2>4, <3>1
    <3>2. CASE i # 1
      <4>. DEFINE k == <<Comma>>
                  e == a \o x
                  g == b \o y
      <4>1. k \in Seq(Glyph) /\ e \in Seq(Glyph) /\ g \in Seq(Glyph)
        BY <2>2, <2>3, <2>5
      <4>2. Texts(Glyph, k, a, x) /\ Texts(Glyph, k, b, y)
        BY <2>2, <2>3, <2>5, <4>1, Zenon DEF Texts
      <4>3. Regrouped(k, a, x) /\ Regrouped(k, b, y)
        <5>. HIDE DEF k
        <5>. QED
          BY <4>2, Regroup
      <4>4. k \o e = k \o g
        BY <2>2, <2>3, <2>4, <3>2, <4>3, Zenon DEF Regrouped
      <4>5. Comma \in Glyph /\ e \in Seq(Glyph) /\ g \in Seq(Glyph)
        BY <2>5, <4>1
      <4>. HIDE DEF e, g
      <4>6. e = g
        BY <4>4, <4>5, TokensSame
      <4>. QED
        BY <4>6 DEF e, g
    <3>. QED
      BY <3>1, <3>2
  <2>8. Alike(a, x, b, y)
    BY <2>7, Zenon DEF Alike
  <2>. QED
    BY <2>6, <2>8
<1>. QED
  BY <1>4, Zenon DEF AreApart, q, p

ClosedAlike(s, E, x, t, y) == Joined(s) \o (<<E>> \o x) = Joined(t) \o (<<E>> \o y)

LEMMA JoinedApart ==
  ASSUME NEW s, AreMembers(s), NEW t, AreMembers(t), NEW Same, MembersApart(s, t, Same),
         NEW E \in {MapEnds, ListEnds}, NEW x \in Seq(Glyph), NEW y \in Seq(Glyph),
         ClosedAlike(s, E, x, t, y)
  PROVE  Len(s) = Len(t) /\ 1 .. Len(s) \subseteq Same /\ x = y
<1>. DEFINE q == Separated(s)
            p == Separated(t)
            A == <<E>> \o x
            B == <<E>> \o y
<1>1. s \in Seq(Seq(Glyph)) /\ t \in Seq(Seq(Glyph))
  BY DEF AreMembers
<1>2. Joined(s) = FlattenSeq(q) /\ Len(q) = Len(s) /\ Joined(t) = FlattenSeq(p) /\ Len(p) = Len(t)
  BY <1>1, SeparatedFacts
<1>3. E \in Ends /\ E \in Glyph
  BY GlyphParts DEF Ends, JsonTokens
<1>4. A \in Rests /\ B \in Rests
  BY <1>3, EndsAreRests
<1>5. IsClosed(q, B, Rests) /\ IsClosed(p, A, Rests)
  BY MembersClosed
<1>6. AreApart(q, p, Rests, Same)
  BY SeparatedApart
<1>7. FlattenSeq(q) \o A = FlattenSeq(p) \o B
  BY <1>2, Zenon DEF ClosedAlike
<1>8. IsRow(Glyph, q, A, Rests) /\ IsRow(Glyph, p, B, Rests)
  <2>. HIDE DEF A, B
  <2>. QED
    BY <1>4, MembersRow
<1>9. Len(q) = Len(p) /\ A = B /\ 1 .. Len(q) \subseteq Same
  <2>. HIDE DEF q, p, A, B
  <2>. QED
    BY <1>5, <1>6, <1>7, <1>8, RowsApart
<1>10. x = y
  BY <1>3, <1>9, TokensSame
<1>. QED
  BY <1>2, <1>9, <1>10

\* One entry of a map.
EntryGoesOn(k, a, x) == Entry(k, a) \o x = StringText(k) \o (<<Colon>> \o (a \o x))

LEMMA EntryForm ==
  ASSUME NEW k \in Seq(Glyph), NEW a \in Seq(Glyph), NEW x \in Seq(Glyph)
  PROVE  BeginsIn(Entry(k, a), Openers) /\ EntryGoesOn(k, a, x)
<1>. DEFINE s == StringText(k)
            c == <<Colon>>
            h == s \o c
<1>1. s \in Seq(Glyph) /\ s # <<>> /\ s[1] = Quote
  BY StringForm
<1>2. Colon \in Glyph
  BY GlyphParts DEF JsonTokens
<1>3. c \in Seq(Glyph)
  BY <1>2
<1>. HIDE DEF s, c
<1>4. h \in Seq(Glyph) /\ h # <<>> /\ h[1] = Quote
  BY <1>1, <1>3, FirstOf
<1>5. a \o x \in Seq(Glyph)
  OBVIOUS
<1>. HIDE DEF h
<1>6. h \o a \in Seq(Glyph) /\ h \o a # <<>> /\ (h \o a)[1] = Quote
  BY <1>4, FirstOf
<1>7. Texts(Glyph, h, a, x) /\ Texts(Glyph, s, c, a \o x)
  BY <1>1, <1>3, <1>4, <1>5, Zenon DEF Texts
<1>8. Regrouped(h, a, x) /\ Regrouped(s, c, a \o x)
  BY <1>7, Regroup
<1>9. (h \o a) \o x = s \o (c \o (a \o x))
  BY <1>8, Zenon DEF Regrouped, h
<1>10. Entry(k, a) = h \o a
  BY Zenon DEF Entry, Colon, h, s, c
<1>11. Quote \in Openers
  BY DEF Openers, Heads
<1>12. BeginsIn(h \o a, Openers)
  BY <1>6, <1>11, Zenon DEF BeginsIn
<1>. QED
  BY <1>9, <1>10, <1>12, Zenon DEF EntryGoesOn, s, c

LEMMA EntriesApart ==
  ASSUME NEW k \in Seq(Glyph), NEW a \in Seq(Glyph), NEW l \in Seq(Glyph), NEW b \in Seq(Glyph),
         NEW x \in Seq(Glyph), NEW y \in Seq(Glyph), Alike(Entry(k, a), x, Entry(l, b), y)
  PROVE  k = l /\ Alike(a, x, b, y)
<1>. DEFINE e == a \o x
            g == b \o y
            d == <<Colon>> \o e
            h == <<Colon>> \o g
<1>1. Entry(k, a) \o x = StringText(k) \o d /\ Entry(l, b) \o y = StringText(l) \o h
  <2>1. EntryGoesOn(k, a, x) /\ EntryGoesOn(l, b, y)
    BY EntryForm
  <2>. QED
    BY <2>1, Zenon DEF EntryGoesOn
<1>2. StringsAlike(k, d, l, h)
  BY <1>1, Zenon DEF Alike, StringsAlike
<1>3. Colon \in Glyph
  BY GlyphParts DEF JsonTokens
<1>4. e \in Seq(Glyph) /\ g \in Seq(Glyph)
  OBVIOUS
<1>. HIDE DEF e, g
<1>5. d \in Seq(Glyph) /\ h \in Seq(Glyph)
  BY <1>3, <1>4, TokenBefore
<1>6. k = l /\ d = h
  <2>. HIDE DEF d, h
  <2>. QED
    BY <1>2, <1>5, StringsApart
<1>7. e = g
  BY <1>3, <1>4, <1>6, TokensSame
<1>. QED
  BY <1>6, <1>7, Zenon DEF Alike, e, g

-----------------------------------------------------------------------------
(* The recursive functions, one level of the tree at a time.               *)

LEMMA BranchFacts ==
  ASSUME NEW v \in Node
  PROVE  /\ Branches(v) \subseteq Node
         /\ Height(v) \in Nat /\ \A w \in Branches(v) : Height(w) \in Nat /\ Height(w) < Height(v)
         /\ IsMapNode(v) => Branches(v) = {v.map[k] : k \in DOMAIN v.map}
         /\ IsListNode(v) /\ ~IsMapNode(v) => Branches(v) = {v.list[i] : i \in DOMAIN v.list}
         /\ ~IsMapNode(v) /\ ~IsListNode(v) => Branches(v) = {}
<1>1. Branches(v) \subseteq Node
  BY NodeAssumption
<1>2. Height(v) \in Nat /\ \A w \in Branches(v) : Height(w) \in Nat /\ Height(w) < Height(v)
  BY <1>1, TreeAssumption
<1>3. IsMapNode(v) => ~IsListNode(v)
  BY DEF IsMapNode, IsListNode
<1>4. /\ IsMapNode(v) => Branches(v) = {v.map[k] : k \in DOMAIN v.map}
      /\ IsListNode(v) /\ ~IsMapNode(v) => Branches(v) = {v.list[i] : i \in DOMAIN v.list}
      /\ ~IsMapNode(v) /\ ~IsListNode(v) => Branches(v) = {}
  BY <1>3, Zenon DEF Branches, Range
<1>. QED
  BY <1>1, <1>2, <1>4

\* What a map and a list hold.
LEMMA MapFacts ==
  ASSUME NEW v \in Node, IsMapNode(v)
  PROVE  /\ v \notin Scalar /\ ~IsListNode(v)
         /\ \A k \in DOMAIN v.map : k \in CodeKey /\ k \in Seq(Glyph) /\ v.map[k] \in Branches(v)
                                    /\ v.map[k] \in Node
         /\ Keys(v) \in Seq(DOMAIN v.map) /\ DOMAIN Keys(v) = 1 .. Len(Keys(v)) /\ Len(Keys(v)) \in Nat
         /\ \A i \in 1 .. Len(Keys(v)) : Keys(v)[i] \in DOMAIN v.map
         /\ \A k \in DOMAIN v.map : \E i \in 1 .. Len(Keys(v)) : Keys(v)[i] = k
<1>. DEFINE D == DOMAIN v.map
            f == v.map
            s == Keys(v)
<1>1. D \subseteq Seq(DOMAIN Code)
  BY TreeAssumption
<1>2. Seq(DOMAIN Code) \subseteq Seq(Glyph)
  BY GlyphParts
<1>3. Branches(v) = {f[k] : k \in D} /\ Branches(v) \subseteq Node
  BY BranchFacts
<1>4. v \notin Scalar /\ ~IsListNode(v)
  <2>1. v \in Scalar => ~IsMapNode(v)
    BY NodeFacts
  <2>2. ~IsListNode(v)
    BY DEF IsMapNode, IsListNode
  <2>. QED
    BY <2>1, <2>2
<1>5. s \in Seq(D) /\ \A k \in D : \E i \in 1 .. Len(s) : s[i] = k
  BY KeysOfMap, Zenon DEF AreKeysOf
<1>. HIDE DEF f, D, s
<1>6. DOMAIN s = 1 .. Len(s) /\ Len(s) \in Nat /\ \A i \in 1 .. Len(s) : s[i] \in D
  BY <1>5
<1>7. \A k \in D : k \in Seq(DOMAIN Code) /\ k \in Seq(Glyph) /\ f[k] \in Branches(v) /\ f[k] \in Node
  BY <1>1, <1>2, <1>3
<1>. QED
  BY <1>4, <1>5, <1>6, <1>7, Zenon DEF D, f, s, CodeKey

LEMMA ListFacts ==
  ASSUME NEW v \in Node, IsListNode(v)
  PROVE  /\ v \notin Scalar /\ ~IsMapNode(v)
         /\ v.list \in Seq(Node) /\ DOMAIN v.list = 1 .. Len(v.list) /\ Len(v.list) \in Nat
         /\ \A i \in 1 .. Len(v.list) : v.list[i] \in Branches(v) /\ v.list[i] \in Node
<1>1. v \notin Scalar /\ ~IsMapNode(v) /\ v.list \in Seq(Branches(v))
  BY NodeFacts
<1>2. Branches(v) \subseteq Node
  BY BranchFacts
<1>. DEFINE s == v.list
            B == Branches(v)
<1>3. s \in Seq(B) /\ B \subseteq Node
  BY <1>1, <1>2
<1>. HIDE DEF s, B
<1>4. s \in Seq(Node) /\ DOMAIN s = 1 .. Len(s) /\ Len(s) \in Nat
      /\ \A i \in 1 .. Len(s) : s[i] \in B /\ s[i] \in Node
  BY <1>3
<1>. QED
  BY <1>1, <1>4 DEF s, B

LEMMA OtherIsScalar ==
  ASSUME NEW v \in Node, ~IsMapNode(v), ~IsListNode(v)
  PROVE  v \in Scalar
BY NodeFacts

\* The text of a tree, from those of what is below its root.
EntriesOf(v, f) == [i \in DOMAIN Keys(v) |-> Entry(Keys(v)[i], f[v.map[Keys(v)[i]]])]
ItemsOf(v, f) == [i \in DOMAIN v.list |-> f[v.list[i]]]
TextWith(v, f) ==
  IF IsMapNode(v) THEN <<MapOpens>> \o Joined(EntriesOf(v, f)) \o <<MapEnds>>
  ELSE IF IsListNode(v) THEN <<ListOpens>> \o Joined(ItemsOf(v, f)) \o <<ListEnds>>
  ELSE ScalarText(v)

TextFunctions == [Node -> Seq(Glyph)]

LEMMA EntriesFacts ==
  ASSUME NEW v \in Node, IsMapNode(v), NEW f \in TextFunctions
  PROVE  /\ EntriesOf(v, f) \in Seq(Seq(Glyph)) /\ Len(EntriesOf(v, f)) = Len(Keys(v))
         /\ AreMembers(EntriesOf(v, f))
         /\ \A i \in 1 .. Len(Keys(v)) : EntriesOf(v, f)[i] = Entry(Keys(v)[i], f[v.map[Keys(v)[i]]])
<1>. DEFINE s == Keys(v)
            n == Len(s)
            e == EntriesOf(v, f)
            a(i) == Entry(s[i], f[v.map[s[i]]])
<1>1. n \in Nat /\ DOMAIN s = 1 .. n
  BY MapFacts
<1>2. ASSUME NEW i \in 1 .. n PROVE BeginsIn(a(i), Openers)
  <2>. DEFINE k == s[i]
              b == f[v.map[k]]
  <2>1. k \in Seq(Glyph) /\ v.map[k] \in Node
    BY MapFacts
  <2>2. b \in Seq(Glyph)
    BY <2>1 DEF TextFunctions
  <2>3. <<>> \in Seq(Glyph)
    OBVIOUS
  <2>. HIDE DEF k, b
  <2>4. BeginsIn(Entry(k, b), Openers)
    BY <2>1, <2>2, <2>3, EntryForm
  <2>. QED
    BY <2>4 DEF k, b
<1>3. e = [i \in 1 .. n |-> a(i)]
  BY <1>1 DEF EntriesOf
<1>4. \A i \in 1 .. n : a(i) \in Seq(Glyph)
  BY <1>2 DEF BeginsIn
<1>. HIDE DEF s, n, a, e
<1>5. e \in [1 .. n -> Seq(Glyph)] /\ DOMAIN e = 1 .. n /\ \A i \in 1 .. n : e[i] = a(i)
  BY <1>3, <1>4
<1>6. e \in Seq(Seq(Glyph)) /\ Len(e) = n
  BY <1>1, <1>5
<1>7. AreMembers(e)
  BY <1>2, <1>5, <1>6 DEF AreMembers
<1>. QED
  BY <1>5, <1>6, <1>7, Zenon DEF s, n, a, e

LEMMA ItemsFacts ==
  ASSUME NEW v \in Node, IsListNode(v), NEW f \in TextFunctions
  PROVE  /\ ItemsOf(v, f) \in Seq(Seq(Glyph)) /\ Len(ItemsOf(v, f)) = Len(v.list)
         /\ \A i \in 1 .. Len(v.list) : ItemsOf(v, f)[i] = f[v.list[i]]
<1>. DEFINE s == v.list
            n == Len(s)
            e == ItemsOf(v, f)
<1>1. n \in Nat /\ DOMAIN s = 1 .. n /\ \A i \in 1 .. n : s[i] \in Node
  BY ListFacts
<1>2. e = [i \in 1 .. n |-> f[s[i]]]
  BY <1>1 DEF ItemsOf
<1>. HIDE DEF s, n, e
<1>3. e \in [1 .. n -> Seq(Glyph)] /\ DOMAIN e = 1 .. n /\ \A i \in 1 .. n : e[i] = f[s[i]]
  BY <1>1, <1>2 DEF TextFunctions
<1>4. e \in Seq(Seq(Glyph)) /\ Len(e) = n
  BY <1>1, <1>3
<1>. QED
  BY <1>3, <1>4 DEF s, n, e

LEMMA TextWithType ==
  ASSUME NEW v \in Node, NEW f \in TextFunctions
  PROVE  TextWith(v, f) \in Seq(Glyph)
<1>0. MapOpens \in Glyph /\ MapEnds \in Glyph /\ ListOpens \in Glyph /\ ListEnds \in Glyph
  BY GlyphParts DEF JsonTokens
<1>1. CASE IsMapNode(v)
  <2>. DEFINE j == Joined(EntriesOf(v, f))
  <2>1. j \in Seq(Glyph)
    BY <1>1, EntriesFacts, JoinedType
  <2>2. TextWith(v, f) = <<MapOpens>> \o j \o <<MapEnds>>
    BY <1>1, Zenon DEF TextWith
  <2>3. <<>> \in Seq(Glyph)
    OBVIOUS
  <2>. HIDE DEF j
  <2>4. IsBracketed(Glyph, MapOpens, j, MapEnds, <<>>, <<MapOpens>> \o j \o <<MapEnds>>)
    BY <1>0, <2>1, <2>3, Bracketing
  <2>. QED
    BY <2>2, <2>4, Zenon DEF IsBracketed
<1>2. CASE ~IsMapNode(v) /\ IsListNode(v)
  <2>. DEFINE j == Joined(ItemsOf(v, f))
  <2>1. j \in Seq(Glyph)
    BY <1>2, ItemsFacts, JoinedType
  <2>2. TextWith(v, f) = <<ListOpens>> \o j \o <<ListEnds>>
    BY <1>2, Zenon DEF TextWith
  <2>3. <<>> \in Seq(Glyph)
    OBVIOUS
  <2>. HIDE DEF j
  <2>4. IsBracketed(Glyph, ListOpens, j, ListEnds, <<>>, <<ListOpens>> \o j \o <<ListEnds>>)
    BY <1>0, <2>1, <2>3, Bracketing
  <2>. QED
    BY <2>2, <2>4, Zenon DEF IsBracketed
<1>3. CASE ~IsMapNode(v) /\ ~IsListNode(v)
  <2>1. TextWith(v, f) = ScalarText(v)
    BY <1>3, Zenon DEF TextWith
  <2>2. v \in Scalar
    BY <1>3, OtherIsScalar
  <2>3. CASE v # Nan
    BY <2>1, <2>2, <2>3, ScalarHead DEF BeginsIn
  <2>4. CASE v = Nan
    <3>1. v.type = "nan"
      BY <2>4 DEF Nan
    <3>2. ScalarText(v) = <<>>
      BY <3>1, Zenon DEF ScalarText
    <3>3. <<>> \in Seq(Glyph)
      OBVIOUS
    <3>. QED
      BY <2>1, <3>2, <3>3, Zenon
  <2>. QED
    BY <2>3, <2>4
<1>. QED
  BY <1>1, <1>2, <1>3, Zenon

LEMMA TextWithLocal ==
  ASSUME NEW v \in Node, NEW f, NEW g, \A w \in Branches(v) : f[w] = g[w]
  PROVE  TextWith(v, f) = TextWith(v, g)
<1>1. CASE IsMapNode(v)
  <2>1. \A i \in DOMAIN Keys(v) : f[v.map[Keys(v)[i]]] = g[v.map[Keys(v)[i]]]
    BY <1>1, MapFacts
  <2>2. EntriesOf(v, f) = EntriesOf(v, g)
    BY <2>1 DEF EntriesOf
  <2>. QED
    BY <1>1, <2>2, Zenon DEF TextWith
<1>2. CASE ~IsMapNode(v) /\ IsListNode(v)
  <2>1. \A i \in DOMAIN v.list : f[v.list[i]] = g[v.list[i]]
    BY <1>2, ListFacts
  <2>2. ItemsOf(v, f) = ItemsOf(v, g)
    BY <2>1 DEF ItemsOf
  <2>. QED
    BY <1>2, <2>2, Zenon DEF TextWith
<1>3. CASE ~IsMapNode(v) /\ ~IsListNode(v)
  BY <1>3, Zenon DEF TextWith
<1>. QED
  BY <1>1, <1>2, <1>3, Zenon

Measure == [v \in Node |-> Height(v)]

LEMMA MeasureFacts ==
  /\ Measure \in [Node -> Nat]
  /\ \A v \in Node : \A w \in Branches(v) : w \in Node /\ Measure[w] < Measure[v]
BY BranchFacts DEF Measure

LEMMA CanonicalDef ==
  /\ CanonicalJSON \in TextFunctions
  /\ \A v \in Node : CanonicalJSON[v] = TextWith(v, CanonicalJSON)
<1>. DEFINE Step == [v \in Node |-> [f \in [Node -> Seq(Glyph)] |-> TextWith(v, f)]]
            Def(f) == f = [v \in Node |-> TextWith(v, f)]
<1>1. CanonicalJSON = CHOOSE f : Def(f)
  BY Zenon DEF CanonicalJSON, TextWith, EntriesOf, ItemsOf, MapOpens, MapEnds, ListOpens, ListEnds
<1>2. IsRecursion(Node, Seq(Glyph), Measure, Step)
  <2>1. Step \in [Node -> [[Node -> Seq(Glyph)] -> Seq(Glyph)]]
    BY TextWithType DEF TextFunctions
  <2>2. ASSUME NEW v \in Node, NEW f \in [Node -> Seq(Glyph)], NEW g \in [Node -> Seq(Glyph)],
               \A w \in Node : Measure[w] < Measure[v] => f[w] = g[w]
        PROVE  Step[v][f] = Step[v][g]
    <3>1. \A w \in Branches(v) : f[w] = g[w]
      BY <2>2, MeasureFacts
    <3>2. TextWith(v, f) = TextWith(v, g)
      BY <3>1, TextWithLocal
    <3>. QED
      BY <3>2
  <2>3. Seq(Glyph) # {}
    <3>1. <<>> \in Seq(Glyph)
      OBVIOUS
    <3>. QED
      BY <3>1
  <2>4. Measure \in [Node -> Nat]
    BY MeasureFacts
  <2>. HIDE DEF Step
  <2>. QED
    BY <2>1, <2>2, <2>3, <2>4 DEF IsRecursion
<1>3. PICK f \in [Node -> Seq(Glyph)] : \A v \in Node : f[v] = Step[v][f]
  <2>. HIDE DEF Step
  <2>. QED
    BY <1>2, Recursion
<1>4. \A v \in Node : f[v] = TextWith(v, f)
  BY <1>3
<1>5. Def(f)
  BY <1>3, <1>4
<1>6. Def(CanonicalJSON)
  <2>. HIDE DEF Def
  <2>. QED
    BY <1>1, <1>5
<1>7. \A v \in Node : CanonicalJSON[v] = TextWith(v, CanonicalJSON)
  BY <1>6
<1>8. CanonicalJSON \in TextFunctions
  <2>. DEFINE c == CanonicalJSON
  <2>1. c = [v \in Node |-> TextWith(v, c)]
    BY <1>6
  <2>2. \A v \in Node : c[v] = TextWith(v, c)
    BY <1>7
  <2>. DEFINE S == {v \in Node : c[v] = f[v]}
  <2>3. ASSUME NEW v \in Node, \A w \in Node : Measure[w] < Measure[v] => w \in S
        PROVE  v \in S
    <3>1. \A w \in Branches(v) : c[w] = f[w]
      BY <2>3, MeasureFacts
    <3>2. TextWith(v, c) = TextWith(v, f)
      <4>. HIDE DEF c
      <4>. QED
        BY <3>1, TextWithLocal
    <3>. QED
      BY <1>4, <2>2, <3>2
  <2>4. Node \subseteq S
    <3>1. Measure \in [Node -> Nat]
      BY MeasureFacts
    <3>. HIDE DEF S
    <3>. QED
      BY <2>3, <3>1, MeasureInduction
  <2>. HIDE DEF c
  <2>5. c \in [Node -> Seq(Glyph)]
    <3>1. \A v \in Node : TextWith(v, c) = f[v]
      BY <2>2, <2>4
    <3>2. \A v \in Node : TextWith(v, c) \in Seq(Glyph)
      BY <1>3, <3>1
    <3>. QED
      BY <2>1, <3>2
  <2>. QED
    BY <2>5 DEF c, TextFunctions
<1>. QED
  BY <1>7, <1>8

\* Whether a tree is serialisable, and two trees are equal in value, from what
\* is so below their roots.
SerialisableWith(v, f) == v # Nan /\ \A w \in Branches(v) : f[w]
EqualWith(v, w, f) ==
  IF IsMapNode(v) \/ IsMapNode(w)
  THEN /\ IsMapNode(v) /\ IsMapNode(w) /\ DOMAIN v.map = DOMAIN w.map
       /\ \A k \in DOMAIN v.map : f[v.map[k]][w.map[k]]
  ELSE IF IsListNode(v) \/ IsListNode(w)
  THEN /\ IsListNode(v) /\ IsListNode(w) /\ Len(v.list) = Len(w.list)
       /\ \A i \in DOMAIN v.list : f[v.list[i]][w.list[i]]
  ELSE ScalarValue(v) = ScalarValue(w)

LEMMA SerialisableDef ==
  \A v \in Node : IsSerialisable[v] <=> SerialisableWith(v, IsSerialisable)
<1>. DEFINE Step == [v \in Node |-> [f \in [Node -> BOOLEAN] |-> SerialisableWith(v, f)]]
            Def(f) == f = [v \in Node |-> SerialisableWith(v, f)]
<1>1. IsSerialisable = CHOOSE f : Def(f)
  BY Zenon DEF IsSerialisable, SerialisableWith
<1>2. IsRecursion(Node, BOOLEAN, Measure, Step)
  <2>1. ASSUME NEW v \in Node, NEW f \in [Node -> BOOLEAN] PROVE SerialisableWith(v, f) \in BOOLEAN
    BY Zenon DEF SerialisableWith
  <2>2. Step \in [Node -> [[Node -> BOOLEAN] -> BOOLEAN]]
    BY <2>1
  <2>3. ASSUME NEW v \in Node, NEW f \in [Node -> BOOLEAN], NEW g \in [Node -> BOOLEAN],
               \A w \in Node : Measure[w] < Measure[v] => f[w] = g[w]
        PROVE  Step[v][f] = Step[v][g]
    <3>1. \A w \in Branches(v) : f[w] = g[w]
      BY <2>3, MeasureFacts
    <3>2. SerialisableWith(v, f) <=> SerialisableWith(v, g)
      BY <3>1, Zenon DEF SerialisableWith
    <3>3. SerialisableWith(v, f) = SerialisableWith(v, g)
      <4>1. SerialisableWith(v, f) \in BOOLEAN /\ SerialisableWith(v, g) \in BOOLEAN
        BY <2>1
      <4>. QED
        BY <3>2, <4>1
    <3>. QED
      BY <3>3
  <2>4. Measure \in [Node -> Nat] /\ BOOLEAN # {}
    BY MeasureFacts
  <2>. HIDE DEF Step
  <2>. QED
    BY <2>2, <2>3, <2>4 DEF IsRecursion
<1>3. PICK f \in [Node -> BOOLEAN] : \A v \in Node : f[v] = Step[v][f]
  <2>. HIDE DEF Step
  <2>. QED
    BY <1>2, Recursion
<1>4. \A v \in Node : f[v] = SerialisableWith(v, f)
  BY <1>3
<1>5. Def(f)
  BY <1>3, <1>4
<1>6. Def(IsSerialisable)
  <2>. HIDE DEF Def
  <2>. QED
    BY <1>1, <1>5
<1>7. \A v \in Node : IsSerialisable[v] = SerialisableWith(v, IsSerialisable)
  BY <1>6
<1>. QED
  BY <1>7, Zenon

LEMMA EqualDef ==
  \A v, w \in Node : EqualInValue[v][w] <=> EqualWith(v, w, EqualInValue)
<1>. DEFINE Val == [Node -> BOOLEAN]
            Turned(v, f) == [w \in Node |-> EqualWith(v, w, f)]
            Step == [v \in Node |-> [f \in [Node -> Val] |-> Turned(v, f)]]
            Def(f) == f = [v \in Node |-> [w \in Node |-> EqualWith(v, w, f)]]
<1>1. EqualInValue = CHOOSE f : Def(f)
  BY Zenon DEF EqualInValue, EqualWith
<1>a. ASSUME NEW v \in Node, NEW w \in Node, NEW f \in [Node -> Val] PROVE EqualWith(v, w, f) \in BOOLEAN
  BY Zenon DEF EqualWith
<1>b. ASSUME NEW v \in Node, NEW f \in [Node -> Val] PROVE Turned(v, f) \in Val
  BY <1>a
<1>2. IsRecursion(Node, Val, Measure, Step)
  <2>2. Step \in [Node -> [[Node -> Val] -> Val]]
    <3>. HIDE DEF Turned, Val
    <3>. QED
      BY <1>b
  <2>3. ASSUME NEW v \in Node, NEW f \in [Node -> Val], NEW g \in [Node -> Val],
               \A w \in Node : Measure[w] < Measure[v] => f[w] = g[w]
        PROVE  Step[v][f] = Step[v][g]
    <3>1. \A w \in Branches(v) : f[w] = g[w]
      BY <2>3, MeasureFacts
    <3>2. ASSUME NEW w \in Node PROVE EqualWith(v, w, f) = EqualWith(v, w, g)
      <4>1. IsMapNode(v) => \A k \in DOMAIN v.map : f[v.map[k]] = g[v.map[k]]
        BY <3>1, MapFacts
      <4>2. IsListNode(v) => \A i \in DOMAIN v.list : f[v.list[i]] = g[v.list[i]]
        BY <3>1, ListFacts
      <4>3. EqualWith(v, w, f) <=> EqualWith(v, w, g)
        BY <4>1, <4>2, Zenon DEF EqualWith
      <4>. QED
        BY <1>a, <4>3, Zenon
    <3>3. Turned(v, f) = Turned(v, g)
      BY <3>2
    <3>. HIDE DEF Turned, Val
    <3>. QED
      BY <3>3
  <2>4. Measure \in [Node -> Nat] /\ Val # {}
    <3>1. [w \in Node |-> TRUE] \in Val
      OBVIOUS
    <3>. HIDE DEF Val
    <3>. QED
      BY <3>1, MeasureFacts
  <2>. HIDE DEF Step, Val
  <2>. QED
    BY <2>2, <2>3, <2>4 DEF IsRecursion
<1>3. PICK f \in [Node -> Val] : \A v \in Node : f[v] = Step[v][f]
  <2>. HIDE DEF Step, Val
  <2>. QED
    BY <1>2, Recursion
<1>4. \A v \in Node : f[v] = Turned(v, f)
  <2>. HIDE DEF Turned, Val
  <2>. QED
    BY <1>3
<1>5. Def(f)
  BY <1>3, <1>4, Zenon
<1>6. Def(EqualInValue)
  <2>. HIDE DEF Def
  <2>. QED
    BY <1>1, <1>5
<1>7. \A v, w \in Node : EqualInValue[v][w] = EqualWith(v, w, EqualInValue)
  BY <1>6
<1>. QED
  BY <1>7, Zenon

-----------------------------------------------------------------------------
(* Trees.                                                                  *)

TextOf(v) == CanonicalJSON[v]
EntryTexts(v) == EntriesOf(v, CanonicalJSON)
ItemTexts(v) == ItemsOf(v, CanonicalJSON)

LEMMA MapText ==
  ASSUME NEW v \in Node, IsMapNode(v), NEW x \in Seq(Glyph)
  PROVE  IsBracketed(Glyph, MapOpens, Joined(EntryTexts(v)), MapEnds, x, TextOf(v))
<1>. DEFINE j == Joined(EntryTexts(v))
<1>1. MapOpens \in Glyph /\ MapEnds \in Glyph
  BY GlyphParts DEF JsonTokens
<1>2. j \in Seq(Glyph)
  BY CanonicalDef, EntriesFacts, JoinedType DEF EntryTexts
<1>3. TextOf(v) = <<MapOpens>> \o j \o <<MapEnds>>
  BY CanonicalDef, Zenon DEF TextOf, TextWith, EntryTexts
<1>. HIDE DEF j
<1>4. IsBracketed(Glyph, MapOpens, j, MapEnds, x, <<MapOpens>> \o j \o <<MapEnds>>)
  BY <1>1, <1>2, Bracketing
<1>. QED
  BY <1>3, <1>4, Zenon DEF j

LEMMA ListText ==
  ASSUME NEW v \in Node, ~IsMapNode(v), IsListNode(v), NEW x \in Seq(Glyph)
  PROVE  IsBracketed(Glyph, ListOpens, Joined(ItemTexts(v)), ListEnds, x, TextOf(v))
<1>. DEFINE j == Joined(ItemTexts(v))
<1>1. ListOpens \in Glyph /\ ListEnds \in Glyph
  BY GlyphParts DEF JsonTokens
<1>2. j \in Seq(Glyph)
  BY CanonicalDef, ItemsFacts, JoinedType DEF ItemTexts
<1>3. TextOf(v) = <<ListOpens>> \o j \o <<ListEnds>>
  BY CanonicalDef, Zenon DEF TextOf, TextWith, ItemTexts
<1>. HIDE DEF j
<1>4. IsBracketed(Glyph, ListOpens, j, ListEnds, x, <<ListOpens>> \o j \o <<ListEnds>>)
  BY <1>1, <1>2, Bracketing
<1>. QED
  BY <1>3, <1>4, Zenon DEF j

LEMMA OtherText ==
  ASSUME NEW v \in Node, ~IsMapNode(v), ~IsListNode(v)
  PROVE  TextOf(v) = ScalarText(v) /\ v \in Scalar
<1>1. TextOf(v) = ScalarText(v)
  BY CanonicalDef, Zenon DEF TextOf, TextWith
<1>. QED
  BY <1>1, OtherIsScalar

\* What a text begins with tells maps, lists and scalars apart.
LEMMA TextHead ==
  ASSUME NEW v \in Node, IsSerialisable[v]
  PROVE  /\ IsMapNode(v) => BeginsIn(TextOf(v), {MapOpens})
         /\ ~IsMapNode(v) /\ IsListNode(v) => BeginsIn(TextOf(v), {ListOpens})
         /\ ~IsMapNode(v) /\ ~IsListNode(v) => BeginsIn(TextOf(v), Heads)
<1>0. <<>> \in Seq(Glyph)
  OBVIOUS
<1>1. ASSUME IsMapNode(v) PROVE BeginsIn(TextOf(v), {MapOpens})
  <2>1. IsBracketed(Glyph, MapOpens, Joined(EntryTexts(v)), MapEnds, <<>>, TextOf(v))
    BY <1>0, <1>1, MapText
  <2>. QED
    BY <2>1, Zenon DEF IsBracketed, BeginsIn
<1>2. ASSUME ~IsMapNode(v), IsListNode(v) PROVE BeginsIn(TextOf(v), {ListOpens})
  <2>1. IsBracketed(Glyph, ListOpens, Joined(ItemTexts(v)), ListEnds, <<>>, TextOf(v))
    BY <1>0, <1>2, ListText
  <2>. QED
    BY <2>1, Zenon DEF IsBracketed, BeginsIn
<1>3. ASSUME ~IsMapNode(v), ~IsListNode(v) PROVE BeginsIn(TextOf(v), Heads)
  <2>1. v # Nan
    BY SerialisableDef, Zenon DEF SerialisableWith
  <2>. QED
    BY <1>3, <2>1, OtherText, ScalarHead
<1>. QED
  BY <1>1, <1>2, <1>3

LEMMA SameShape ==
  ASSUME NEW v \in Node, NEW w \in Node, IsSerialisable[v], IsSerialisable[w],
         NEW x \in Seq(Glyph), NEW y \in Seq(Glyph), Alike(TextOf(v), x, TextOf(w), y)
  PROVE  /\ IsMapNode(v) <=> IsMapNode(w)
         /\ ~IsMapNode(v) => (IsListNode(v) <=> IsListNode(w))
<1>. DEFINE a == TextOf(v)
            b == TextOf(w)
<1>1. ASSUME NEW G, NEW H, BeginsIn(a, G), BeginsIn(b, H) PROVE G \cap H # {}
  <2>1. Alike(a, x, b, y)
    OBVIOUS
  <2>. HIDE DEF a, b
  <2>2. a[1] \in G \cap H
    BY <1>1, <2>1, BeginAlike
  <2>. QED
    BY <2>2
<1>2. /\ IsMapNode(v) => BeginsIn(a, {MapOpens})
      /\ ~IsMapNode(v) /\ IsListNode(v) => BeginsIn(a, {ListOpens})
      /\ ~IsMapNode(v) /\ ~IsListNode(v) => BeginsIn(a, Heads)
  BY TextHead
<1>3. /\ IsMapNode(w) => BeginsIn(b, {MapOpens})
      /\ ~IsMapNode(w) /\ IsListNode(w) => BeginsIn(b, {ListOpens})
      /\ ~IsMapNode(w) /\ ~IsListNode(w) => BeginsIn(b, Heads)
  BY TextHead
<1>4. /\ {MapOpens} \cap {ListOpens} = {} /\ {MapOpens} \cap Heads = {} /\ {ListOpens} \cap Heads = {}
      /\ {ListOpens} \cap {MapOpens} = {} /\ Heads \cap {MapOpens} = {} /\ Heads \cap {ListOpens} = {}
  BY TokensApart, HeadsApart
<1>. HIDE DEF a, b
<1>. QED
  BY <1>1, <1>2, <1>3, <1>4, Zenon

\* The tree is told by its text, whatever is behind it.
Told(v) ==
  \A w \in Node : \A x, y \in Rests :
     IsSerialisable[w] /\ Alike(TextOf(v), x, TextOf(w), y) => EqualInValue[v][w] /\ x = y

LEMMA MapTold ==
  ASSUME NEW v \in Node, IsSerialisable[v], IsMapNode(v), \A u \in Branches(v) : Told(u)
  PROVE  Told(v)
<1>. SUFFICES ASSUME NEW w \in Node, NEW x \in Rests, NEW y \in Rests, IsSerialisable[w],
                     Alike(TextOf(v), x, TextOf(w), y)
              PROVE  EqualInValue[v][w] /\ x = y
  BY Zenon DEF Told
<1>0. x \in Seq(Glyph) /\ y \in Seq(Glyph)
  BY DEF Rests
<1>1. IsMapNode(w)
  BY <1>0, SameShape
<1>. DEFINE s == Keys(v)
            t == Keys(w)
            e == EntryTexts(v)
            g == EntryTexts(w)
            Same == {i \in 1 .. Len(s) : s[i] = t[i] /\ EqualInValue[v.map[s[i]]][w.map[t[i]]]}
<1>2. /\ AreMembers(e) /\ Len(e) = Len(s)
      /\ \A i \in 1 .. Len(s) : e[i] = Entry(s[i], TextOf(v.map[s[i]]))
  BY CanonicalDef, EntriesFacts DEF EntryTexts, TextOf
<1>3. /\ AreMembers(g) /\ Len(g) = Len(t)
      /\ \A i \in 1 .. Len(t) : g[i] = Entry(t[i], TextOf(w.map[t[i]]))
  BY <1>1, CanonicalDef, EntriesFacts DEF EntryTexts, TextOf
<1>4. /\ s \in Seq(DOMAIN v.map) /\ Len(s) \in Nat
      /\ \A i \in 1 .. Len(s) : s[i] \in DOMAIN v.map
      /\ \A k \in DOMAIN v.map : \E i \in 1 .. Len(s) : s[i] = k
      /\ \A k \in DOMAIN v.map : k \in Seq(Glyph) /\ v.map[k] \in Branches(v) /\ v.map[k] \in Node
  BY MapFacts
<1>5. /\ t \in Seq(DOMAIN w.map) /\ Len(t) \in Nat
      /\ \A i \in 1 .. Len(t) : t[i] \in DOMAIN w.map
      /\ \A k \in DOMAIN w.map : \E i \in 1 .. Len(t) : t[i] = k
      /\ \A k \in DOMAIN w.map : k \in Seq(Glyph) /\ w.map[k] \in Branches(w) /\ w.map[k] \in Node
  BY <1>1, MapFacts
<1>6. \A u \in Node : TextOf(u) \in Seq(Glyph)
  BY CanonicalDef DEF TextOf, TextFunctions
<1>7. \A u \in Branches(w) : IsSerialisable[u]
  BY SerialisableDef, Zenon DEF SerialisableWith
<1>. HIDE DEF s, t, e, g
<1>8. MembersApart(e, g, Same)
  <2>1. ASSUME NEW i \in 1 .. Len(e), i <= Len(g), NEW p \in Rests, NEW q \in Rests, Alike(e[i], p, g[i], q)
        PROVE  i \in Same /\ p = q
    <3>. DEFINE k == s[i]
                l == t[i]
                c == v.map[k]
                d == w.map[l]
    <3>1. i \in 1 .. Len(s) /\ i \in 1 .. Len(t)
      BY <1>2, <1>3, <1>4, <1>5, <2>1
    <3>2. k \in Seq(Glyph) /\ c \in Branches(v) /\ c \in Node /\ e[i] = Entry(k, TextOf(c))
      BY <1>2, <1>4, <3>1
    <3>3. l \in Seq(Glyph) /\ d \in Branches(w) /\ d \in Node /\ g[i] = Entry(l, TextOf(d))
      BY <1>3, <1>5, <3>1
    <3>4. p \in Seq(Glyph) /\ q \in Seq(Glyph)
      BY DEF Rests
    <3>5. TextOf(c) \in Seq(Glyph) /\ TextOf(d) \in Seq(Glyph)
      BY <1>6, <3>2, <3>3
    <3>6. Alike(Entry(k, TextOf(c)), p, Entry(l, TextOf(d)), q)
      BY <2>1, <3>2, <3>3, Zenon
    <3>. HIDE DEF k, l, c, d
    <3>7. k = l /\ Alike(TextOf(c), p, TextOf(d), q)
      <4>. DEFINE a == TextOf(c)
                  b == TextOf(d)
      <4>1. a \in Seq(Glyph) /\ b \in Seq(Glyph) /\ Alike(Entry(k, a), p, Entry(l, b), q)
        BY <3>5, <3>6
      <4>. HIDE DEF a, b
      <4>2. k = l /\ Alike(a, p, b, q)
        BY <3>2, <3>3, <3>4, <4>1, EntriesApart
      <4>. QED
        BY <4>2 DEF a, b
    <3>8. Told(c) /\ IsSerialisable[d]
      BY <1>7, <3>2, <3>3
    <3>9. EqualInValue[c][d] /\ p = q
      BY <3>3, <3>7, <3>8, Zenon DEF Told
    <3>. QED
      BY <3>1, <3>7, <3>9, Zenon DEF k, l, c, d
  <2>. HIDE DEF Same
  <2>. QED
    BY <2>1, Zenon DEF MembersApart
<1>9. ClosedAlike(e, MapEnds, x, g, y)
  <2>1. IsBracketed(Glyph, MapOpens, Joined(e), MapEnds, x, TextOf(v))
        /\ IsBracketed(Glyph, MapOpens, Joined(g), MapEnds, y, TextOf(w))
    BY <1>0, <1>1, MapText DEF e, g
  <2>. DEFINE a == Joined(e) \o (<<MapEnds>> \o x)
              b == Joined(g) \o (<<MapEnds>> \o y)
  <2>2. <<MapOpens>> \o a = <<MapOpens>> \o b
    BY <2>1, Zenon DEF IsBracketed, Alike
  <2>3. a \in Seq(Glyph) /\ b \in Seq(Glyph) /\ MapOpens \in Glyph
    <3>1. MapEnds \in Glyph /\ MapOpens \in Glyph
      BY GlyphParts DEF JsonTokens
    <3>2. Joined(e) \in Seq(Glyph) /\ Joined(g) \in Seq(Glyph)
      BY <1>2, <1>3, JoinedType DEF AreMembers
    <3>3. <<MapEnds>> \o x \in Seq(Glyph) /\ <<MapEnds>> \o y \in Seq(Glyph)
      BY <1>0, <3>1, TokenBefore
    <3>. QED
      BY <3>1, <3>2, <3>3
  <2>. HIDE DEF a, b
  <2>4. a = b
    BY <2>2, <2>3, TokensSame
  <2>. QED
    BY <2>4, Zenon DEF a, b, ClosedAlike
<1>10. Len(e) = Len(g) /\ 1 .. Len(e) \subseteq Same /\ x = y
  <2>1. MapEnds \in {MapEnds, ListEnds}
    OBVIOUS
  <2>. HIDE DEF Same
  <2>. QED
    BY <1>0, <1>2, <1>3, <1>8, <1>9, <2>1, JoinedApart
<1>11. Len(s) = Len(t) /\ \A i \in 1 .. Len(s) : s[i] = t[i] /\ EqualInValue[v.map[s[i]]][w.map[s[i]]]
  <2>1. Len(s) = Len(t) /\ 1 .. Len(s) \subseteq Same
    BY <1>2, <1>3, <1>10
  <2>2. \A i \in Same : s[i] = t[i] /\ EqualInValue[v.map[s[i]]][w.map[s[i]]]
    BY Zenon
  <2>. HIDE DEF Same
  <2>. QED
    BY <2>1, <2>2, Zenon
<1>12. DOMAIN v.map = DOMAIN w.map
  <2>. DEFINE D == DOMAIN v.map
              F == DOMAIN w.map
  <2>1. /\ \A i \in 1 .. Len(s) : s[i] \in D
        /\ \A k \in D : \E i \in 1 .. Len(s) : s[i] = k
    BY <1>4
  <2>2. /\ \A i \in 1 .. Len(t) : t[i] \in F
        /\ \A k \in F : \E i \in 1 .. Len(t) : t[i] = k
    BY <1>5
  <2>3. Len(s) = Len(t) /\ \A i \in 1 .. Len(s) : s[i] = t[i]
    BY <1>11
  <2>. HIDE DEF D, F
  <2>4. ASSUME NEW k \in D PROVE k \in F
    <3>1. PICK i \in 1 .. Len(s) : s[i] = k
      BY <2>1, Zenon
    <3>2. i \in 1 .. Len(t) /\ t[i] = k
      BY <2>3, <3>1, Zenon
    <3>. QED
      BY <2>2, <3>2, Zenon
  <2>5. ASSUME NEW k \in F PROVE k \in D
    <3>1. PICK i \in 1 .. Len(t) : t[i] = k
      BY <2>2, Zenon
    <3>2. i \in 1 .. Len(s) /\ s[i] = k
      <4>1. i \in 1 .. Len(s)
        BY <2>3, Zenon
      <4>. QED
        BY <2>3, <3>1, <4>1, Zenon
    <3>. QED
      BY <2>1, <3>2, Zenon
  <2>6. D = F
    BY <2>4, <2>5
  <2>. QED
    BY <2>6, Zenon DEF D, F
<1>13. \A k \in DOMAIN v.map : EqualInValue[v.map[k]][w.map[k]]
  <2>. SUFFICES ASSUME NEW k \in DOMAIN v.map PROVE EqualInValue[v.map[k]][w.map[k]]
    OBVIOUS
  <2>1. PICK i \in 1 .. Len(s) : s[i] = k
    BY <1>4
  <2>. QED
    BY <1>11, <2>1, Zenon
<1>14. EqualWith(v, w, EqualInValue)
  BY <1>1, <1>12, <1>13, Zenon DEF EqualWith
<1>. QED
  BY <1>10, <1>14, EqualDef, Zenon

LEMMA ListTold ==
  ASSUME NEW v \in Node, IsSerialisable[v], ~IsMapNode(v), IsListNode(v), \A u \in Branches(v) : Told(u)
  PROVE  Told(v)
<1>. SUFFICES ASSUME NEW w \in Node, NEW x \in Rests, NEW y \in Rests, IsSerialisable[w],
                     Alike(TextOf(v), x, TextOf(w), y)
              PROVE  EqualInValue[v][w] /\ x = y
  BY Zenon DEF Told
<1>0. x \in Seq(Glyph) /\ y \in Seq(Glyph)
  BY DEF Rests
<1>1. ~IsMapNode(w) /\ IsListNode(w)
  BY <1>0, SameShape
<1>. DEFINE s == v.list
            t == w.list
            e == ItemTexts(v)
            g == ItemTexts(w)
            Same == {i \in 1 .. Len(s) : EqualInValue[s[i]][t[i]]}
<1>2. /\ s \in Seq(Node) /\ Len(s) \in Nat /\ DOMAIN s = 1 .. Len(s)
      /\ \A i \in 1 .. Len(s) : s[i] \in Branches(v) /\ s[i] \in Node
  BY ListFacts
<1>3. /\ t \in Seq(Node) /\ Len(t) \in Nat /\ DOMAIN t = 1 .. Len(t)
      /\ \A i \in 1 .. Len(t) : t[i] \in Branches(w) /\ t[i] \in Node
  BY <1>1, ListFacts
<1>4. /\ e \in Seq(Seq(Glyph)) /\ Len(e) = Len(s)
      /\ \A i \in 1 .. Len(s) : e[i] = TextOf(s[i])
  BY CanonicalDef, ItemsFacts DEF ItemTexts, TextOf
<1>5. /\ g \in Seq(Seq(Glyph)) /\ Len(g) = Len(t)
      /\ \A i \in 1 .. Len(t) : g[i] = TextOf(t[i])
  BY <1>1, CanonicalDef, ItemsFacts DEF ItemTexts, TextOf
<1>6. /\ \A u \in Branches(v) : IsSerialisable[u]
      /\ \A u \in Branches(w) : IsSerialisable[u]
  BY SerialisableDef, Zenon DEF SerialisableWith
<1>. HIDE DEF s, t, e, g
<1>7. ASSUME NEW u \in Node, IsSerialisable[u] PROVE BeginsIn(TextOf(u), Openers)
  <2>1. {MapOpens} \subseteq Openers /\ {ListOpens} \subseteq Openers /\ Heads \subseteq Openers
    BY DEF Openers
  <2>2. ASSUME NEW H, H \subseteq Openers, BeginsIn(TextOf(u), H) PROVE BeginsIn(TextOf(u), Openers)
    BY <2>2 DEF BeginsIn
  <2>. QED
    BY <1>7, <2>1, <2>2, TextHead
<1>8. AreMembers(e) /\ AreMembers(g)
  <2>1. \A i \in 1 .. Len(e) : BeginsIn(e[i], Openers)
    BY <1>2, <1>4, <1>6, <1>7
  <2>2. \A i \in 1 .. Len(g) : BeginsIn(g[i], Openers)
    BY <1>3, <1>5, <1>6, <1>7
  <2>. QED
    BY <1>4, <1>5, <2>1, <2>2 DEF AreMembers
<1>9. MembersApart(e, g, Same)
  <2>1. ASSUME NEW i \in 1 .. Len(e), i <= Len(g), NEW p \in Rests, NEW q \in Rests, Alike(e[i], p, g[i], q)
        PROVE  i \in Same /\ p = q
    <3>. DEFINE c == s[i]
                d == t[i]
    <3>1. i \in 1 .. Len(s) /\ i \in 1 .. Len(t)
      BY <1>2, <1>3, <1>4, <1>5, <2>1
    <3>2. c \in Branches(v) /\ c \in Node /\ e[i] = TextOf(c)
      BY <1>2, <1>4, <3>1
    <3>3. d \in Branches(w) /\ d \in Node /\ g[i] = TextOf(d)
      BY <1>3, <1>5, <3>1
    <3>4. Alike(TextOf(c), p, TextOf(d), q)
      BY <2>1, <3>2, <3>3, Zenon
    <3>5. Told(c) /\ IsSerialisable[d]
      BY <1>6, <3>2, <3>3
    <3>6. EqualInValue[c][d] /\ p = q
      BY <3>3, <3>4, <3>5, Zenon DEF Told
    <3>. QED
      BY <3>1, <3>6, Zenon DEF c, d
  <2>. HIDE DEF Same
  <2>. QED
    BY <2>1, Zenon DEF MembersApart
<1>10. ClosedAlike(e, ListEnds, x, g, y)
  <2>1. IsBracketed(Glyph, ListOpens, Joined(e), ListEnds, x, TextOf(v))
        /\ IsBracketed(Glyph, ListOpens, Joined(g), ListEnds, y, TextOf(w))
    BY <1>0, <1>1, ListText DEF e, g
  <2>. DEFINE a == Joined(e) \o (<<ListEnds>> \o x)
              b == Joined(g) \o (<<ListEnds>> \o y)
  <2>2. <<ListOpens>> \o a = <<ListOpens>> \o b
    BY <2>1, Zenon DEF IsBracketed, Alike
  <2>3. a \in Seq(Glyph) /\ b \in Seq(Glyph) /\ ListOpens \in Glyph
    <3>1. ListEnds \in Glyph /\ ListOpens \in Glyph
      BY GlyphParts DEF JsonTokens
    <3>2. Joined(e) \in Seq(Glyph) /\ Joined(g) \in Seq(Glyph)
      BY <1>4, <1>5, JoinedType
    <3>3. <<ListEnds>> \o x \in Seq(Glyph) /\ <<ListEnds>> \o y \in Seq(Glyph)
      BY <1>0, <3>1, TokenBefore
    <3>. QED
      BY <3>1, <3>2, <3>3
  <2>. HIDE DEF a, b
  <2>4. a = b
    BY <2>2, <2>3, TokensSame
  <2>. QED
    BY <2>4, Zenon DEF a, b, ClosedAlike
<1>11. Len(e) = Len(g) /\ 1 .. Len(e) \subseteq Same /\ x = y
  <2>1. ListEnds \in {MapEnds, ListEnds}
    OBVIOUS
  <2>. HIDE DEF Same
  <2>. QED
    BY <1>0, <1>8, <1>9, <1>10, <2>1, JoinedApart
<1>12. Len(s) = Len(t) /\ \A i \in DOMAIN s : EqualInValue[s[i]][t[i]]
  <2>1. Len(s) = Len(t) /\ DOMAIN s \subseteq Same
    BY <1>2, <1>4, <1>5, <1>11
  <2>2. \A i \in Same : EqualInValue[s[i]][t[i]]
    BY Zenon
  <2>. HIDE DEF Same
  <2>. QED
    BY <2>1, <2>2, Zenon
<1>13. EqualWith(v, w, EqualInValue)
  BY <1>1, <1>12, Zenon DEF EqualWith, s, t
<1>. QED
  BY <1>11, <1>13, EqualDef, Zenon

LEMMA ScalarTold ==
  ASSUME NEW v \in Node, IsSerialisable[v], ~IsMapNode(v), ~IsListNode(v)
  PROVE  Told(v)
<1>. SUFFICES ASSUME NEW w \in Node, NEW x \in Rests, NEW y \in Rests, IsSerialisable[w],
                     Alike(TextOf(v), x, TextOf(w), y)
              PROVE  EqualInValue[v][w] /\ x = y
  BY Zenon DEF Told
<1>0. x \in Seq(Glyph) /\ y \in Seq(Glyph)
  BY DEF Rests
<1>1. ~IsMapNode(w) /\ ~IsListNode(w)
  BY <1>0, SameShape
<1>2. v # Nan /\ w # Nan
  BY SerialisableDef, Zenon DEF SerialisableWith
<1>3. v \in Scalar /\ w \in Scalar /\ Alike(ScalarText(v), x, ScalarText(w), y)
  BY <1>1, OtherText
<1>4. ScalarValue(v) = ScalarValue(w) /\ x = y
  BY <1>2, <1>3, ScalarsApart
<1>5. EqualWith(v, w, EqualInValue)
  BY <1>1, <1>4, Zenon DEF EqualWith
<1>. QED
  BY <1>4, <1>5, EqualDef, Zenon

\* Each tree is told by its text (canonical_json.go:12-44).
LEMMA TreesTold ==
  ASSUME NEW v \in Node, IsSerialisable[v]
  PROVE  Told(v)
<1>. DEFINE S == {u \in Node : IsSerialisable[u] => Told(u)}
<1>1. ASSUME NEW u \in Node, \A w \in Node : Measure[w] < Measure[u] => w \in S
      PROVE  u \in S
  <2>. SUFFICES ASSUME IsSerialisable[u] PROVE Told(u)
    OBVIOUS
  <2>1. \A w \in Branches(u) : IsSerialisable[w]
    BY SerialisableDef, Zenon DEF SerialisableWith
  <2>2. \A w \in Branches(u) : Told(w)
    BY <1>1, <2>1, MeasureFacts
  <2>. QED
    BY <2>2, MapTold, ListTold, ScalarTold
<1>2. Node \subseteq S
  <2>1. Measure \in [Node -> Nat]
    BY MeasureFacts
  <2>. HIDE DEF S
  <2>. QED
    BY <1>1, <2>1, MeasureInduction
<1>. QED
  BY <1>2

\* Keys, of what keys a map has.
KeysIn(D) ==
    LET Before(k) == {l \in D : KeyBefore(l, k)}
    IN [i \in 1 .. Cardinality(D) |-> CHOOSE k \in D : Cardinality(Before(k)) = i - 1]

\* Trees of one value are written alike.
LEMMA TreesOfOneValue ==
  ASSUME NEW v \in Node, NEW w \in Node, IsSerialisable[v], IsSerialisable[w], EqualInValue[v][w]
  PROVE  TextOf(v) = TextOf(w)
<1>. DEFINE IsLike(u) == \A z \in Node : IsSerialisable[z] /\ EqualInValue[u][z] => TextOf(u) = TextOf(z)
            S == {u \in Node : IsSerialisable[u] => IsLike(u)}
<1>1. ASSUME NEW u \in Node, \A z \in Node : Measure[z] < Measure[u] => z \in S
      PROVE  u \in S
  <2>. SUFFICES ASSUME IsSerialisable[u], NEW z \in Node, IsSerialisable[z], EqualInValue[u][z]
                PROVE  TextOf(u) = TextOf(z)
    OBVIOUS
  <2>1. EqualWith(u, z, EqualInValue)
    BY EqualDef, Zenon
  <2>2. /\ \A b \in Branches(u) : IsSerialisable[b]
        /\ \A b \in Branches(z) : IsSerialisable[b]
        /\ u # Nan /\ z # Nan
    BY SerialisableDef, Zenon DEF SerialisableWith
  <2>3. \A b \in Branches(u) : b \in Node /\ IsLike(b)
    BY <1>1, <2>2, MeasureFacts
  <2>. HIDE DEF S
  <2>4. /\ TextOf(u) = TextWith(u, CanonicalJSON)
        /\ TextOf(z) = TextWith(z, CanonicalJSON)
    BY CanonicalDef DEF TextOf
  <2>5. CASE IsMapNode(u) \/ IsMapNode(z)
    <3>1. /\ IsMapNode(u) /\ IsMapNode(z) /\ DOMAIN u.map = DOMAIN z.map
          /\ \A k \in DOMAIN u.map : EqualInValue[u.map[k]][z.map[k]]
      BY <2>1, <2>5, Zenon DEF EqualWith
    <3>2. Keys(u) = Keys(z)
      <4>1. Keys(u) = KeysIn(DOMAIN u.map) /\ Keys(z) = KeysIn(DOMAIN z.map)
        BY Zenon DEF Keys, KeysIn
      <4>. QED
        BY <3>1, <4>1, Zenon
    <3>3. \A k \in DOMAIN u.map : TextOf(u.map[k]) = TextOf(z.map[k])
      <4>. SUFFICES ASSUME NEW k \in DOMAIN u.map PROVE TextOf(u.map[k]) = TextOf(z.map[k])
        OBVIOUS
      <4>1. u.map[k] \in Branches(u)
        BY <3>1, MapFacts
      <4>2. z.map[k] \in Branches(z) /\ z.map[k] \in Node
        BY <3>1, MapFacts
      <4>. QED
        BY <2>2, <2>3, <3>1, <4>1, <4>2, Zenon
    <3>4. \A i \in DOMAIN Keys(u) : Keys(u)[i] \in DOMAIN u.map
      BY <3>1, MapFacts
    <3>5. \A i \in DOMAIN Keys(u) :
             CanonicalJSON[u.map[Keys(u)[i]]] = CanonicalJSON[z.map[Keys(u)[i]]]
      BY <3>3, <3>4, Zenon DEF TextOf
    <3>6. EntriesOf(u, CanonicalJSON) = EntriesOf(z, CanonicalJSON)
      <4>. DEFINE s == Keys(u)
                  f(i) == CanonicalJSON[u.map[s[i]]]
                  g(i) == CanonicalJSON[z.map[s[i]]]
      <4>1. \A i \in DOMAIN s : f(i) = g(i)
        BY <3>5
      <4>2. /\ EntriesOf(u, CanonicalJSON) = [i \in DOMAIN s |-> Entry(s[i], f(i))]
            /\ EntriesOf(z, CanonicalJSON) = [i \in DOMAIN s |-> Entry(s[i], g(i))]
        BY <3>2, Zenon DEF EntriesOf
      <4>. HIDE DEF s, f, g
      <4>3. [i \in DOMAIN s |-> Entry(s[i], f(i))] = [i \in DOMAIN s |-> Entry(s[i], g(i))]
        BY <4>1
      <4>. QED
        BY <4>2, <4>3, Zenon
    <3>. QED
      BY <2>4, <3>1, <3>6, Zenon DEF TextWith
  <2>6. CASE ~IsMapNode(u) /\ ~IsMapNode(z) /\ (IsListNode(u) \/ IsListNode(z))
    <3>1. /\ IsListNode(u) /\ IsListNode(z) /\ Len(u.list) = Len(z.list)
          /\ \A i \in DOMAIN u.list : EqualInValue[u.list[i]][z.list[i]]
      BY <2>1, <2>6, Zenon DEF EqualWith
    <3>2. DOMAIN u.list = DOMAIN z.list /\ DOMAIN u.list = 1 .. Len(u.list)
      BY <3>1, ListFacts
    <3>3. \A i \in DOMAIN u.list : CanonicalJSON[u.list[i]] = CanonicalJSON[z.list[i]]
      <4>. SUFFICES ASSUME NEW i \in DOMAIN u.list PROVE TextOf(u.list[i]) = TextOf(z.list[i])
        BY DEF TextOf
      <4>1. u.list[i] \in Branches(u)
        BY <3>1, <3>2, ListFacts
      <4>2. z.list[i] \in Branches(z) /\ z.list[i] \in Node
        BY <3>1, <3>2, ListFacts
      <4>. QED
        BY <2>2, <2>3, <3>1, <4>1, <4>2, Zenon
    <3>4. ItemsOf(u, CanonicalJSON) = ItemsOf(z, CanonicalJSON)
      BY <3>2, <3>3 DEF ItemsOf
    <3>. QED
      BY <2>4, <2>6, <3>1, <3>4, Zenon DEF TextWith
  <2>7. CASE ~IsMapNode(u) /\ ~IsMapNode(z) /\ ~IsListNode(u) /\ ~IsListNode(z)
    <3>1. ScalarValue(u) = ScalarValue(z)
      BY <2>1, <2>7, Zenon DEF EqualWith
    <3>2. TextOf(u) = ScalarText(u) /\ TextOf(z) = ScalarText(z) /\ u \in Scalar /\ z \in Scalar
      BY <2>7, OtherText
    <3>. QED
      BY <2>2, <3>1, <3>2, ScalarsOfOneValue
  <2>. QED
    BY <2>5, <2>6, <2>7, Zenon
<1>2. Node \subseteq S
  <2>1. Measure \in [Node -> Nat]
    BY MeasureFacts
  <2>. HIDE DEF S
  <2>. QED
    BY <1>1, <2>1, MeasureInduction
<1>. QED
  BY <1>2

-----------------------------------------------------------------------------
(* The calls of CanonicalJSON.                                             *)

\* What a call of CanonicalJSON returns: the texts of the trees of a set that
\* have one.
AreTexts(texts) ==
  \E S \in SUBSET Node : texts = [v \in {w \in S : IsSerialisable[w]} |-> TextOf(v)]

\* The tree is one of the program's, and so are the texts that were returned.
TextsHeld ==
  /\ case \in Cases /\ Decodable(case.origin, case.lexeme)
  /\ tree # None => tree \in Node
  /\ call # None /\ call.op = "canonical" => AreTexts(answer.texts)

LEMMA TextsHeldInductive == TextsHeld /\ [CanonicalNext]_vars => TextsHeld'
<1>. SUFFICES ASSUME TextsHeld, [CanonicalNext]_vars PROVE TextsHeld'
  OBVIOUS
<1>1. CASE LoadTree
  <2>1. UNCHANGED <<case, call, answer>> /\ tree' = TreeOf(case.shape, Decoded(case.origin, case.lexeme))
    BY <1>1 DEF LoadTree
  <2>2. tree' \in Node
    BY <2>1, NodeAssumption DEF TextsHeld
  <2>. QED
    BY <2>1, <2>2 DEF TextsHeld
<1>2. CASE Call
  <2>1. UNCHANGED <<case, tree>>
    BY <1>2 DEF Call, Get, GetList, GetTyped, GetDefault, GetSection, Return
  <2>2. \E op \in {"get", "list", "typed", "default", "section"} : \E kind, path : call' = Called(op, kind, path)
    BY <1>2, CallNames DEF Call
  <2>3. call'.op # "canonical"
    BY <2>2 DEF Called
  <2>. QED
    BY <2>1, <2>3 DEF TextsHeld
<1>3. CASE Done \/ UNCHANGED vars
  BY <1>3 DEF Done, TextsHeld, vars
<1>4. ASSUME NEW other \in Serialised[case.calls], Serialise(other) PROVE TextsHeld'
  <2>1. UNCHANGED <<case, tree>>
    BY <1>4 DEF Serialise, Return
  <2>2. {tree, other} \in SUBSET Node
    BY <1>4, SerialisedAssumption DEF TextsHeld, Serialise
  <2>3. answer'.texts = [v \in {w \in {tree, other} : IsSerialisable[w]} |-> TextOf(v)]
    BY <1>4 DEF Serialise, Return, TextOf
  <2>4. AreTexts(answer'.texts)
    BY <2>2, <2>3, Zenon DEF AreTexts
  <2>. QED
    BY <2>1, <2>4 DEF TextsHeld
<1>. QED
  BY <1>1, <1>2, <1>3, <1>4 DEF CanonicalNext, Next

\* Two of the texts are one exactly if the trees are equal in value.
LEMMA TextsTell ==
  ASSUME NEW texts, AreTexts(texts), NEW v \in DOMAIN texts, NEW w \in DOMAIN texts
  PROVE  texts[v] = texts[w] <=> EqualInValue[v][w]
<1>1. PICK S \in SUBSET Node : texts = [u \in {z \in S : IsSerialisable[z]} |-> TextOf(u)]
  BY Zenon DEF AreTexts
<1>2. v \in Node /\ w \in Node /\ IsSerialisable[v] /\ IsSerialisable[w]
  BY <1>1
<1>3. texts[v] = TextOf(v) /\ texts[w] = TextOf(w)
  BY <1>1
<1>4. EqualInValue[v][w] => TextOf(v) = TextOf(w)
  BY <1>2, TreesOfOneValue
<1>5. TextOf(v) = TextOf(w) => EqualInValue[v][w]
  <2>. SUFFICES ASSUME TextOf(v) = TextOf(w) PROVE EqualInValue[v][w]
    OBVIOUS
  <2>1. <<>> \in Rests
    BY NoRest
  <2>2. Alike(TextOf(v), <<>>, TextOf(w), <<>>)
    BY Zenon DEF Alike
  <2>3. Told(v)
    BY <1>2, TreesTold
  <2>. QED
    BY <1>2, <2>1, <2>2, <2>3, Zenon DEF Told
<1>. QED
  BY <1>3, <1>4, <1>5

\* Whatever trees CanonicalJSON is asked for, two of them have one text exactly
\* if they are equal in value (canonical_json.go:12-44, 184-245).
THEOREM TextTellsTreesApartHolds == CanonicalSpec => []TextTellsTreesApart
<1>1. Init => TextsHeld
  BY DEF Init, TextsHeld
<1>2. TextsHeld => TextTellsTreesApart
  BY TextsTell, Zenon DEF TextsHeld, TextTellsTreesApart
<1>. QED
  BY <1>1, <1>2, TextsHeldInductive, PTL DEF CanonicalSpec
=============================================================================
