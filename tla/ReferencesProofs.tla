-------------------------- MODULE ReferencesProofs --------------------------
(***************************************************************************)
(* Proofs about References, for texts and environments of any size:        *)
(* interpolation reads a text once from the left, an escaped text is       *)
(* served literally, no reference is served but as the value of a          *)
(* variable, the env scheme serves what the interpolation writes, the      *)
(* Vault adapter splits a path at the separators it was written with, and  *)
(* parseSecretRef reads a reference as its grammar writes it.              *)
(*                                                                         *)
(* The scanners of Tokens and Interpolation are recursive functions over   *)
(* positions.  Each is first shown to be a scan, which exists and writes a *)
(* text; then, that a text before another only puts its scan off, so that  *)
(* it can be reasoned about token by token, by induction on the text.      *)
(***************************************************************************)
EXTENDS References, RecursionProofs, SequenceTheorems

-----------------------------------------------------------------------------
(* Scanners.                                                               *)

\* The first occurrence of a token.
LEMMA FirstOccurrence ==
  ASSUME NEW T, NEW s \in Seq(T), NEW i \in Nat \ {0}, NEW token
  PROVE  \/ IndexFrom(s, i, token) = 0 /\ \A j \in i .. Len(s) : s[j] # token
         \/ /\ IndexFrom(s, i, token) \in i .. Len(s)
            /\ s[IndexFrom(s, i, token)] = token
            /\ \A j \in i .. IndexFrom(s, i, token) - 1 : s[j] # token
<1>. DEFINE I == {j \in i .. Len(s) : s[j] = token}
<1>1. IndexFrom(s, i, token) = IF I # {} THEN Min(I) ELSE 0
  BY DEF IndexFrom, SelectInSubSeq
<1>2. CASE I = {}
  BY <1>1, <1>2
<1>3. CASE I # {}
  <2>1. I \subseteq Nat
    OBVIOUS
  <2>2. Min(I) \in I /\ \A y \in I : Min(I) <= y
    <3>. HIDE DEF I
    <3>. QED
      BY <1>3, <2>1, SmallestNumber DEF Min
  <2>3. IndexFrom(s, i, token) = Min(I)
    BY <1>1, <1>3
  <2>. DEFINE first == Min(I)
  <2>4. first \in i .. Len(s) /\ s[first] = token
    BY <2>2
  <2>5. ASSUME NEW j \in i .. first - 1 PROVE s[j] # token
    BY <2>2, <2>4
  <2>. QED
    BY <2>3, <2>4, <2>5
<1>. QED
  BY <1>2, <1>3

\* A text longer than nothing is a token and a shorter text.
LEMMA HeadAndRest ==
  ASSUME NEW T, NEW s \in Seq(T), s # <<>>
  PROVE  \E x \in T, r \in Seq(T) : s = <<x>> \o r /\ Len(r) < Len(s) /\ x = s[1]
<1>. DEFINE n == Len(s)
            r == SubSeq(s, 2, n)
<1>1. n \in Nat \ {0} /\ s[1] \in T /\ 1 \in 1 .. n /\ n \in 1 .. n
  OBVIOUS
<1>2. r \in Seq(T) /\ Len(r) = n - 1
  <2>1. n \in Int /\ 2 \in Int /\ \A i \in 2 .. n : s[i] \in T
    BY <1>1
  <2>2. r \in Seq(T) /\ Len(r) = IF 2 <= n THEN n - 2 + 1 ELSE 0
    <3>. HIDE DEF n
    <3>. QED
      BY <2>1, SubSeqProperties
  <2>. HIDE DEF r, n
  <2>. QED
    BY <1>1, <2>2
<1>3. SubSeq(s, 1, n) = s
  BY SubSeqFull
<1>4. SubSeq(s, 1, n) = <<s[1]>> \o SubSeq(s, 1 + 1, n)
  BY <1>1, SubSeqRecursiveFirst
<1>5. s = <<s[1]>> \o r
  BY <1>3, <1>4
<1>6. Len(r) < Len(s)
  BY <1>1, <1>2
<1>. HIDE DEF r
<1>. QED
  BY <1>1, <1>2, <1>5, <1>6

\* Induction on the length of a text.
LEMMA TextInduction ==
  ASSUME NEW T, NEW S,
         \A s \in Seq(T) : (\A r \in Seq(T) : Len(r) < Len(s) => r \in S) => s \in S
  PROVE  Seq(T) \subseteq S
<1>. DEFINE D == Seq(T)
            m == [s \in D |-> Len(s)]
<1>1. m \in [D -> Nat] /\ \A s \in D : m[s] = Len(s)
  OBVIOUS
<1>. HIDE DEF m, D
<1>2. ASSUME NEW s \in D, \A r \in D : m[r] < m[s] => r \in S PROVE s \in S
  <2>1. \A r \in Seq(T) : Len(r) < Len(s) => r \in S
    BY <1>1, <1>2 DEF D
  <2>. QED
    BY <2>1 DEF D
<1>3. D \subseteq S
  BY <1>1, <1>2, MeasureInduction
<1>. QED
  BY <1>3 DEF D

-----------------------------------------------------------------------------
(* Scans: from a position a piece is written, and the next position read.  *)

\* A scan of n positions: what it writes at each, and where it goes on.
ScanOf(T, n, top, out, next) ==
  /\ n \in Nat /\ top \in Nat /\ n + 1 <= top
  /\ out \in [1 .. n -> Seq(T)]
  /\ next \in [1 .. n -> 1 .. top]
  /\ \A i \in 1 .. n : next[i] > i

Turn(n, out, next, i, f) == IF i > n THEN <<>> ELSE out[i] \o f[next[i]]

IsScan(n, top, out, next, f) == \A i \in 1 .. top : f[i] = Turn(n, out, next, i, f)

LEMMA TurnType ==
  ASSUME NEW T, NEW n, NEW top, NEW out, NEW next, ScanOf(T, n, top, out, next),
         NEW i \in 1 .. top, NEW f, \A j \in 1 .. top : j > i => f[j] \in Seq(T)
  PROVE  Turn(n, out, next, i, f) \in Seq(T)
<1>1. CASE i > n
  BY <1>1 DEF Turn
<1>2. CASE ~(i > n)
  <2>1. i \in 1 .. n
    BY <1>2 DEF ScanOf
  <2>2. next[i] \in 1 .. top /\ next[i] > i /\ out[i] \in Seq(T)
    BY <2>1 DEF ScanOf
  <2>3. out[i] \o f[next[i]] \in Seq(T)
    BY <2>2, ConcatProperties
  <2>. QED
    BY <1>2, <2>3 DEF Turn
<1>. QED
  BY <1>1, <1>2

\* Every scan comes to an end: there is the function from each position to
\* the text that is written from there on.
LEMMA ScanExists ==
  ASSUME NEW T, NEW n, NEW top, NEW out, NEW next, ScanOf(T, n, top, out, next)
  PROVE  \E f \in [1 .. top -> Seq(T)] : IsScan(n, top, out, next, f)
<1>. DEFINE D == 1 .. top
            Val == Seq(T)
            m == [i \in D |-> top - i]
            Step == [i \in D |-> [f \in [D -> Val] |-> Turn(n, out, next, i, f)]]
<1>1. n \in Nat /\ top \in Nat
  BY DEF ScanOf
<1>2. m \in [D -> Nat] /\ \A i \in D : m[i] <= top
  BY <1>1
<1>3. \A i, j \in D : m[j] < m[i] <=> j > i
  BY <1>1
<1>4. Step \in [D -> [[D -> Val] -> Val]]
  <2>1. ASSUME NEW i \in D, NEW f \in [D -> Val] PROVE Turn(n, out, next, i, f) \in Val
    BY TurnType
  <2>. HIDE DEF D, Val
  <2>. QED
    BY <2>1
<1>5. ASSUME NEW i \in D, NEW f \in [D -> Val], NEW g \in [D -> Val],
             \A y \in D : m[y] < m[i] => f[y] = g[y]
      PROVE  Step[i][f] = Step[i][g]
  <2>1. ~(i > n) => next[i] \in D /\ next[i] > i
    BY DEF ScanOf
  <2>2. ~(i > n) => f[next[i]] = g[next[i]]
    BY <1>3, <1>5, <2>1
  <2>3. Turn(n, out, next, i, f) = Turn(n, out, next, i, g)
    BY <2>2, Zenon DEF Turn
  <2>. HIDE DEF D, Val, m
  <2>. QED
    BY <2>3
<1>6. Val # {}
  BY EmptySeq
<1>7. \E f \in [D -> Val] : \A i \in D : f[i] = Step[i][f]
  <2>1. IsRecursion(D, Val, m, Step)
    <3>. HIDE DEF D, m, Step, Val
    <3>. QED
      BY <1>1, <1>2, <1>4, <1>5, <1>6 DEF IsRecursion
  <2>. HIDE DEF D, m, Step, Val
  <2>. QED
    BY <2>1, Recursion
<1>. HIDE DEF D, Val
<1>8. PICK f \in [D -> Val] : \A i \in D : f[i] = Turn(n, out, next, i, f)
  BY <1>7
<1>. QED
  BY <1>8 DEF IsScan, D, Val

\* Any function that goes through the same turns writes texts.
LEMMA ScanType ==
  ASSUME NEW T, NEW n, NEW top, NEW out, NEW next, ScanOf(T, n, top, out, next),
         NEW f, IsScan(n, top, out, next, f)
  PROVE  \A i \in 1 .. top : f[i] \in Seq(T)
<1>. DEFINE D == 1 .. top
            m == [i \in D |-> top - i]
            S == {i \in D : f[i] \in Seq(T)}
<1>1. top \in Nat
  BY DEF ScanOf
<1>2. m \in [D -> Nat] /\ \A i, j \in D : m[j] < m[i] <=> j > i
  BY <1>1
<1>3. ASSUME NEW i \in D, \A y \in D : m[y] < m[i] => y \in S PROVE i \in S
  <2>1. \A j \in D : j > i => f[j] \in Seq(T)
    BY <1>2, <1>3
  <2>2. Turn(n, out, next, i, f) \in Seq(T)
    BY <2>1, TurnType
  <2>. QED
    BY <2>2 DEF IsScan
<1>4. D \subseteq S
  <2>. HIDE DEF D, m, S
  <2>. QED
    BY <1>2, <1>3, MeasureInduction
<1>. QED
  BY <1>4

\* A scan that does k positions later what another does: it writes the same.
IsShifted(n, k, out, next, out2, next2) ==
  \A i \in 1 .. n : out2[i + k] = out[i] /\ next2[i + k] = next[i] + k

LEMMA ScanShift ==
  ASSUME NEW T, NEW n, NEW top, NEW out, NEW next, ScanOf(T, n, top, out, next),
         NEW f, IsScan(n, top, out, next, f),
         NEW k \in Nat, NEW out2, NEW next2, NEW g, IsScan(n + k, top + k, out2, next2, g),
         IsShifted(n, k, out, next, out2, next2)
  PROVE  \A i \in 1 .. top : g[i + k] = f[i]
<1>. DEFINE D == 1 .. top
            m == [i \in D |-> top - i]
            S == {i \in D : g[i + k] = f[i]}
<1>1. top \in Nat /\ n \in Nat
  BY DEF ScanOf
<1>2. m \in [D -> Nat] /\ \A i, j \in D : m[j] < m[i] <=> j > i
  BY <1>1
<1>3. ASSUME NEW i \in D, \A y \in D : m[y] < m[i] => y \in S PROVE i \in S
  <2>1. f[i] = Turn(n, out, next, i, f)
    BY DEF IsScan
  <2>2. g[i + k] = Turn(n + k, out2, next2, i + k, g)
    <3>1. i + k \in 1 .. top + k
      BY <1>1
    <3>. QED
      BY <3>1 DEF IsScan
  <2>3. CASE i > n
    <3>1. i + k > n + k
      BY <1>1, <2>3
    <3>. QED
      BY <2>1, <2>2, <2>3, <3>1 DEF Turn
  <2>4. CASE ~(i > n)
    <3>1. ~(i + k > n + k) /\ i \in 1 .. n
      BY <1>1, <2>4
    <3>2. next[i] \in D /\ next[i] > i
      BY <3>1 DEF ScanOf
    <3>3. g[next[i] + k] = f[next[i]]
      BY <1>2, <1>3, <3>2
    <3>4. out2[i + k] = out[i] /\ next2[i + k] = next[i] + k
      BY <3>1 DEF IsShifted
    <3>5. f[i] = out[i] \o f[next[i]] /\ g[i + k] = out2[i + k] \o g[next2[i + k]]
      BY <2>1, <2>2, <2>4, <3>1, Zenon DEF Turn
    <3>6. g[i + k] = f[i]
      BY <3>3, <3>4, <3>5
    <3>. QED
      BY <3>6
  <2>. QED
    BY <2>3, <2>4
<1>4. D \subseteq S
  <2>. HIDE DEF D, m, S
  <2>. QED
    BY <1>2, <1>3, MeasureInduction
<1>. QED
  BY <1>4

-----------------------------------------------------------------------------
(* strings.ReplaceAll is a scan.                                           *)

\* A pattern of one token or of two, token by token.
LEMMA HasOneAt ==
  ASSUME NEW T, NEW s \in Seq(T), NEW i \in 1 .. Len(s), NEW t
  PROVE  HasAt(s, i, <<t>>) <=> s[i] = t
<1>1. Len(<<t>>) = 1 /\ i + 1 - 1 = i /\ i <= Len(s) /\ Len(s) \in Nat
  OBVIOUS
<1>. DEFINE q == SubSeq(s, i, i)
<1>2. q \in Seq(T) /\ Len(q) = 1 /\ q[1] = s[i]
  BY <1>1
<1>3. HasAt(s, i, <<t>>) <=> q = <<t>>
  BY <1>1 DEF HasAt
<1>. HIDE DEF q
<1>4. q = <<t>> <=> q[1] = t
  BY <1>2
<1>. QED
  BY <1>2, <1>3, <1>4

LEMMA HasTwoAt ==
  ASSUME NEW T, NEW s \in Seq(T), NEW i \in 1 .. Len(s), NEW t, NEW u
  PROVE  HasAt(s, i, <<t, u>>) <=> i + 1 <= Len(s) /\ s[i] = t /\ s[i + 1] = u
<1>1. Len(<<t, u>>) = 2 /\ i + 2 - 1 = i + 1 /\ Len(s) \in Nat
  OBVIOUS
<1>. DEFINE q == SubSeq(s, i, i + 1)
<1>2. HasAt(s, i, <<t, u>>) <=> i + 1 <= Len(s) /\ q = <<t, u>>
  BY <1>1 DEF HasAt
<1>3. ASSUME i + 1 <= Len(s) PROVE q \in Seq(T) /\ Len(q) = 2 /\ q[1] = s[i] /\ q[2] = s[i + 1]
  BY <1>1, <1>3
<1>. HIDE DEF q
<1>4. ASSUME i + 1 <= Len(s) PROVE q = <<t, u>> <=> q[1] = t /\ q[2] = u
  BY <1>3, <1>4
<1>. QED
  BY <1>2, <1>3, <1>4

\* Behind a text p, a text has its patterns where it has them by itself.
LEMMA HasAtBehind ==
  ASSUME NEW T, NEW p \in Seq(T), NEW r \in Seq(T), NEW i \in 1 .. Len(r),
         NEW pattern, Len(pattern) \in Nat \ {0}
  PROVE  HasAt(p \o r, i + Len(p), pattern) <=> HasAt(r, i, pattern)
<1>. DEFINE n == Len(pattern)
<1>1. Len(p) \in Nat /\ Len(r) \in Nat /\ n \in Nat \ {0} /\ Len(p \o r) = Len(p) + Len(r)
  OBVIOUS
<1>2. CASE i + n - 1 <= Len(r)
  <2>. DEFINE a == i + Len(p)
              b == i + Len(p) + n - 1
  <2>1. /\ a \in Len(p) + 1 .. Len(p) + Len(r) /\ b \in Len(p) + 1 .. Len(p) + Len(r)
        /\ a - Len(p) = i /\ b - Len(p) = i + n - 1 /\ b <= Len(p \o r)
    BY <1>1, <1>2
  <2>2. SubSeq(p \o r, a, b) = SubSeq(r, i, i + n - 1)
    <3>. HIDE DEF a, b, n
    <3>1. SubSeq(p \o r, a, b) = SubSeq(r, a - Len(p), b - Len(p))
      BY <2>1, SubSeqOfConcat2
    <3>. QED
      BY <2>1, <3>1, Zenon
  <2>. QED
    BY <1>2, <2>1, <2>2, Zenon DEF HasAt
<1>3. CASE ~(i + n - 1 <= Len(r))
  <2>1. ~(i + Len(p) + n - 1 <= Len(p \o r))
    BY <1>1, <1>3
  <2>. QED
    BY <1>3, <2>1 DEF HasAt
<1>. QED
  BY <1>2, <1>3

Joins(s, p, r) == s = p \o r

Replaceable(T, s, pattern, new) ==
  s \in Seq(T) /\ Len(pattern) \in Nat \ {0} /\ new \in Seq(T)

ReplaceOut(s, pattern, new) ==
  [i \in 1 .. Len(s) |-> IF HasAt(s, i, pattern) THEN new ELSE <<s[i]>>]
ReplaceNext(s, pattern) ==
  [i \in 1 .. Len(s) |-> IF HasAt(s, i, pattern) THEN i + Len(pattern) ELSE i + 1]
Replacing(s, pattern, new, f) ==
  IsScan(Len(s), Len(s) + Len(pattern), ReplaceOut(s, pattern, new), ReplaceNext(s, pattern), f)

\* The turn of ReplaceEach at position i.
Replaces(s, pattern, new, i, f) ==
  IF i > Len(s) THEN <<>>
  ELSE IF HasAt(s, i, pattern) THEN new \o f[i + Len(pattern)]
  ELSE <<s[i]>> \o f[i + 1]

LEMMA ReplaceIsScanOf ==
  ASSUME NEW T, NEW s, NEW pattern, NEW new, Replaceable(T, s, pattern, new)
  PROVE  ScanOf(T, Len(s), Len(s) + Len(pattern), ReplaceOut(s, pattern, new),
                ReplaceNext(s, pattern))
<1>. s \in Seq(T) /\ Len(pattern) \in Nat \ {0} /\ new \in Seq(T)
  BY DEF Replaceable
<1>. DEFINE n == Len(s)
            k == Len(pattern)
<1>1. n \in Nat /\ k \in Nat \ {0} /\ n + k \in Nat /\ n + 1 <= n + k
  OBVIOUS
<1>2. ReplaceOut(s, pattern, new) \in [1 .. n -> Seq(T)]
  <2>1. \A i \in 1 .. n : <<s[i]>> \in Seq(T)
    OBVIOUS
  <2>. HIDE DEF n
  <2>. QED
    BY <2>1 DEF ReplaceOut, n
<1>3. ASSUME NEW i \in 1 .. n
      PROVE  ReplaceNext(s, pattern)[i] \in 1 .. n + k /\ ReplaceNext(s, pattern)[i] > i
  <2>1. ReplaceNext(s, pattern)[i] = IF HasAt(s, i, pattern) THEN i + k ELSE i + 1
    BY DEF ReplaceNext
  <2>. HIDE DEF n, k
  <2>. QED
    BY <1>1, <2>1
<1>4. ReplaceNext(s, pattern) \in [1 .. n -> 1 .. n + k]
  <2>1. ReplaceNext(s, pattern) = [i \in 1 .. n |-> ReplaceNext(s, pattern)[i]]
    BY Zenon DEF ReplaceNext
  <2>. HIDE DEF n, k
  <2>. QED
    BY <1>3, <2>1
<1>. HIDE DEF n, k
<1>5. ScanOf(T, n, n + k, ReplaceOut(s, pattern, new), ReplaceNext(s, pattern))
  BY <1>1, <1>2, <1>3, <1>4 DEF ScanOf
<1>. QED
  BY <1>5 DEF n, k

LEMMA ReplaceTurn ==
  ASSUME NEW T, NEW s, NEW pattern, NEW new, Replaceable(T, s, pattern, new),
         NEW i \in 1 .. Len(s) + Len(pattern), NEW f
  PROVE  Turn(Len(s), ReplaceOut(s, pattern, new), ReplaceNext(s, pattern), i, f)
         = Replaces(s, pattern, new, i, f)
<1>. s \in Seq(T) /\ Len(pattern) \in Nat \ {0} /\ new \in Seq(T)
  BY DEF Replaceable
<1>1. CASE i > Len(s)
  BY <1>1 DEF Turn, Replaces
<1>2. CASE ~(i > Len(s))
  <2>1. i \in 1 .. Len(s)
    BY <1>2
  <2>2. /\ ReplaceOut(s, pattern, new)[i] = IF HasAt(s, i, pattern) THEN new ELSE <<s[i]>>
        /\ ReplaceNext(s, pattern)[i] = IF HasAt(s, i, pattern) THEN i + Len(pattern) ELSE i + 1
    BY <2>1, Zenon DEF ReplaceOut, ReplaceNext
  <2>. QED
    BY <1>2, <2>2, Zenon DEF Turn, Replaces
<1>. QED
  BY <1>1, <1>2

LEMMA ReplaceEachScans ==
  ASSUME NEW T, NEW s, NEW pattern, NEW new, Replaceable(T, s, pattern, new)
  PROVE  \E f : Replacing(s, pattern, new, f) /\ ReplaceEach(s, pattern, new) = f[1]
<1>. s \in Seq(T) /\ Len(pattern) \in Nat \ {0} /\ new \in Seq(T)
  BY DEF Replaceable
<1>. DEFINE D == 1 .. Len(s) + Len(pattern)
            Def(f) == f = [i \in D |-> Replaces(s, pattern, new, i, f)]
            v == CHOOSE f : Def(f)
<1>1. PICK f \in [D -> Seq(T)] : Replacing(s, pattern, new, f)
  BY ReplaceIsScanOf, ScanExists DEF Replacing
<1>2. Def(f)
  <2>1. \A i \in D : f[i] = Replaces(s, pattern, new, i, f)
    BY <1>1, ReplaceTurn DEF Replacing, IsScan
  <2>. HIDE DEF D
  <2>. QED
    BY <2>1
<1>3. Def(v)
  <2>. HIDE DEF Def
  <2>. QED
    BY <1>2
<1>4. ReplaceEach(s, pattern, new) = v[1]
  BY DEF ReplaceEach, Replaces
<1>. HIDE DEF v
<1>5. \A i \in D : v[i] = Replaces(s, pattern, new, i, v)
  <2>. HIDE DEF D
  <2>. QED
    BY <1>3
<1>6. Replacing(s, pattern, new, v)
  BY <1>5, ReplaceTurn DEF Replacing, IsScan
<1>. QED
  BY <1>4, <1>6

\* strings.ReplaceAll makes a text of a text.
LEMMA ReplaceEachType ==
  ASSUME NEW T, NEW s, NEW pattern, NEW new, Replaceable(T, s, pattern, new)
  PROVE  ReplaceEach(s, pattern, new) \in Seq(T)
<1>. s \in Seq(T) /\ Len(pattern) \in Nat \ {0} /\ new \in Seq(T)
  BY DEF Replaceable
<1>1. PICK f : Replacing(s, pattern, new, f) /\ ReplaceEach(s, pattern, new) = f[1]
  BY ReplaceEachScans
<1>2. 1 \in 1 .. Len(s) + Len(pattern)
  OBVIOUS
<1>. QED
  BY <1>1, <1>2, ReplaceIsScanOf, ScanType DEF Replacing

LEMMA ReplacingTurns ==
  ASSUME NEW T, NEW s, NEW pattern, NEW new, Replaceable(T, s, pattern, new),
         NEW f, Replacing(s, pattern, new, f), NEW i \in 1 .. Len(s) + Len(pattern)
  PROVE  f[i] = Replaces(s, pattern, new, i, f)
  BY ReplaceTurn DEF Replacing, IsScan

\* Behind a text p, the scan writes what it writes of the rest by itself.
LEMMA ReplaceBehind ==
  ASSUME NEW T, NEW p \in Seq(T), NEW r, NEW pattern, NEW new, Replaceable(T, r, pattern, new),
         NEW s, Joins(s, p, r), NEW g, Replacing(s, pattern, new, g)
  PROVE  g[Len(p) + 1] = ReplaceEach(r, pattern, new)
<1>. DEFINE k == Len(p)
            n == Len(r)
            top == Len(r) + Len(pattern)
<1>0. r \in Seq(T) /\ Len(pattern) \in Nat \ {0} /\ new \in Seq(T)
  BY DEF Replaceable
<1>1. s \in Seq(T) /\ Len(s) = n + k /\ Len(s) + Len(pattern) = top + k
  BY <1>0 DEF Joins
<1>2. k \in Nat /\ n \in Nat /\ \A i \in 1 .. n : s[i + k] = r[i] /\ i + k \in 1 .. Len(s)
  BY <1>0 DEF Joins
<1>3. PICK f : Replacing(r, pattern, new, f) /\ ReplaceEach(r, pattern, new) = f[1]
  BY ReplaceEachScans
<1>4. ASSUME NEW i \in 1 .. n
      PROVE  /\ ReplaceOut(s, pattern, new)[i + k] = ReplaceOut(r, pattern, new)[i]
             /\ ReplaceNext(s, pattern)[i + k] = ReplaceNext(r, pattern)[i] + k
  <2>1. HasAt(s, i + k, pattern) <=> HasAt(r, i, pattern)
    BY <1>0, HasAtBehind DEF Joins
  <2>2. /\ ReplaceOut(r, pattern, new)[i] = IF HasAt(r, i, pattern) THEN new ELSE <<r[i]>>
        /\ ReplaceNext(r, pattern)[i] = IF HasAt(r, i, pattern) THEN i + Len(pattern) ELSE i + 1
    BY Zenon DEF ReplaceOut, ReplaceNext
  <2>3. /\ ReplaceOut(s, pattern, new)[i + k]
           = IF HasAt(s, i + k, pattern) THEN new ELSE <<s[i + k]>>
        /\ ReplaceNext(s, pattern)[i + k]
           = IF HasAt(s, i + k, pattern) THEN i + k + Len(pattern) ELSE i + k + 1
    <3>. HIDE DEF k
    <3>. QED
      BY <1>2, Zenon DEF ReplaceOut, ReplaceNext
  <2>4. i + k + Len(pattern) = i + Len(pattern) + k /\ i + k + 1 = i + 1 + k
    BY <1>0, <1>2
  <2>5. s[i + k] = r[i]
    BY <1>2
  <2>. HIDE DEF k
  <2>. QED
    BY <2>1, <2>2, <2>3, <2>4, <2>5, Zenon
<1>5. IsScan(n + k, top + k, ReplaceOut(s, pattern, new), ReplaceNext(s, pattern), g)
  BY <1>1, Zenon DEF Replacing
<1>6. /\ ScanOf(T, n, top, ReplaceOut(r, pattern, new), ReplaceNext(r, pattern))
      /\ IsScan(n, top, ReplaceOut(r, pattern, new), ReplaceNext(r, pattern), f)
  BY <1>3, ReplaceIsScanOf DEF Replacing
<1>7. 1 \in 1 .. top /\ k \in Nat /\ 1 + k = k + 1
  BY <1>0
<1>. HIDE DEF k, n, top
<1>8. IsShifted(n, k, ReplaceOut(r, pattern, new), ReplaceNext(r, pattern),
                ReplaceOut(s, pattern, new), ReplaceNext(s, pattern))
  BY <1>4 DEF IsShifted
<1>9. ASSUME NEW i \in 1 .. top PROVE g[i + k] = f[i]
  <2>. DEFINE o == ReplaceOut(r, pattern, new)
              o2 == ReplaceOut(s, pattern, new)
              x == ReplaceNext(r, pattern)
              x2 == ReplaceNext(s, pattern)
  <2>1. /\ ScanOf(T, n, top, o, x) /\ IsScan(n, top, o, x, f)
        /\ IsScan(n + k, top + k, o2, x2, g) /\ IsShifted(n, k, o, x, o2, x2)
    BY <1>5, <1>6, <1>8
  <2>. HIDE DEF o, o2, x, x2
  <2>. QED
    BY <1>7, <2>1, ScanShift
<1>10. g[k + 1] = f[1]
  BY <1>7, <1>9
<1>. QED
  BY <1>3, <1>10 DEF k

LEMMA ReplaceNothing ==
  ASSUME NEW T, NEW s, NEW pattern, NEW new, Replaceable(T, s, pattern, new), Len(s) = 0
  PROVE  ReplaceEach(s, pattern, new) = <<>>
<1>1. PICK f : Replacing(s, pattern, new, f) /\ ReplaceEach(s, pattern, new) = f[1]
  BY ReplaceEachScans
<1>2. 1 \in 1 .. Len(s) + Len(pattern) /\ 1 > Len(s)
  BY DEF Replaceable
<1>3. f[1] = Replaces(s, pattern, new, 1, f)
  BY <1>1, <1>2, ReplacingTurns
<1>. QED
  BY <1>1, <1>2, <1>3, Zenon DEF Replaces

\* Where the pattern is, its replacement is written, and the rest is read by itself.
LEMMA ReplaceHit ==
  ASSUME NEW T, NEW r, NEW pattern, NEW new, Replaceable(T, r, pattern, new),
         pattern \in Seq(T), NEW s, Joins(s, pattern, r)
  PROVE  ReplaceEach(s, pattern, new) = new \o ReplaceEach(r, pattern, new)
<1>. DEFINE k == Len(pattern)
<1>0. r \in Seq(T) /\ k \in Nat \ {0} /\ new \in Seq(T)
  BY DEF Replaceable
<1>1. /\ s \in Seq(T) /\ Len(s) = k + Len(r) /\ k \in 1 .. Len(s)
      /\ 1 \in 1 .. Len(s) + k /\ ~(1 > Len(s)) /\ 1 + k - 1 = k /\ k + 1 = 1 + k
  BY <1>0 DEF Joins
<1>2. HasAt(s, 1, pattern)
  <2>1. SubSeq(s, 1, k) = SubSeq(pattern, 1, k)
    <3>1. 1 \in 1 .. Len(pattern) /\ k \in 1 .. Len(pattern)
      BY <1>0
    <3>. HIDE DEF k
    <3>. QED
      BY <1>0, <3>1, SubSeqOfConcat1 DEF Joins
  <2>2. SubSeq(pattern, 1, k) = pattern
    BY SubSeqFull
  <2>3. k <= Len(s)
    BY <1>1
  <2>. QED
    BY <1>1, <2>1, <2>2, <2>3, Zenon DEF HasAt
<1>3. Replaceable(T, s, pattern, new)
  BY <1>0, <1>1 DEF Replaceable
<1>4. PICK f : Replacing(s, pattern, new, f) /\ ReplaceEach(s, pattern, new) = f[1]
  BY <1>3, ReplaceEachScans
<1>5. f[1] = Replaces(s, pattern, new, 1, f)
  BY <1>1, <1>3, <1>4, ReplacingTurns
<1>6. f[1] = new \o f[1 + k]
  BY <1>1, <1>2, <1>5, Zenon DEF Replaces
<1>7. f[k + 1] = ReplaceEach(r, pattern, new)
  BY <1>4, ReplaceBehind
<1>. HIDE DEF k
<1>. QED
  BY <1>1, <1>4, <1>6, <1>7, Zenon

\* Elsewhere the token is written as it is.
LEMMA ReplaceMiss ==
  ASSUME NEW T, NEW r, NEW pattern, NEW new, Replaceable(T, r, pattern, new),
         NEW x \in T, NEW s, Joins(s, <<x>>, r), ~HasAt(s, 1, pattern)
  PROVE  ReplaceEach(s, pattern, new) = <<x>> \o ReplaceEach(r, pattern, new)
<1>. DEFINE p == <<x>>
<1>0. r \in Seq(T) /\ Len(pattern) \in Nat \ {0} /\ new \in Seq(T)
  BY DEF Replaceable
<1>1. /\ s \in Seq(T) /\ s[1] = x /\ Len(s) = 1 + Len(r)
      /\ 1 \in 1 .. Len(s) + Len(pattern) /\ ~(1 > Len(s))
  BY <1>0 DEF Joins
<1>2. p \in Seq(T) /\ Len(p) = 1 /\ Joins(s, p, r)
  OBVIOUS
<1>3. Replaceable(T, s, pattern, new)
  BY <1>0, <1>1 DEF Replaceable
<1>4. PICK f : Replacing(s, pattern, new, f) /\ ReplaceEach(s, pattern, new) = f[1]
  BY <1>3, ReplaceEachScans
<1>5. f[1] = Replaces(s, pattern, new, 1, f)
  BY <1>1, <1>3, <1>4, ReplacingTurns
<1>6. f[1] = <<x>> \o f[1 + 1]
  BY <1>1, <1>5, Zenon DEF Replaces
<1>7. f[Len(p) + 1] = ReplaceEach(r, pattern, new)
  <2>1. p \in Seq(T) /\ Joins(s, p, r)
    BY <1>2
  <2>. HIDE DEF p
  <2>. QED
    BY <1>4, <2>1, ReplaceBehind
<1>. HIDE DEF p
<1>. QED
  BY <1>2, <1>4, <1>6, <1>7, Zenon

\* What strings.ReplaceAll does with a token, and with two in a row, from the
\* left: F is the function from a text to the text it makes.
ReplacesOne(T, t, new, F) ==
  /\ F[<<>>] = <<>>
  /\ F \in [Seq(T) -> Seq(T)]
  /\ \A r \in Seq(T) : F[<<t>> \o r] = new \o F[r]
  /\ \A x \in T \ {t}, r \in Seq(T) : F[<<x>> \o r] = <<x>> \o F[r]

ReplacesTwo(T, t, u, new, F) ==
  /\ F[<<>>] = <<>>
  /\ F \in [Seq(T) -> Seq(T)]
  /\ \A r \in Seq(T) : F[<<t, u>> \o r] = new \o F[r]
  /\ \A x \in T, r \in Seq(T) :
        (x = t /\ r # <<>> => r[1] # u) => F[<<x>> \o r] = <<x>> \o F[r]

LEMMA ReplaceOneLaws ==
  ASSUME NEW T, NEW t \in T, NEW new \in Seq(T)
  PROVE  ReplacesOne(T, t, new, [s \in Seq(T) |-> ReplaceEach(s, <<t>>, new)])
<1>. DEFINE pattern == <<t>>
            F == [s \in Seq(T) |-> ReplaceEach(s, pattern, new)]
<1>1. Len(pattern) \in Nat \ {0} /\ pattern \in Seq(T) /\ <<>> \in Seq(T) /\ Len(<<>>) = 0
  OBVIOUS
<1>. HIDE DEF pattern
<1>2. \A s \in Seq(T) : Replaceable(T, s, pattern, new)
  BY <1>1 DEF Replaceable
<1>3. F[<<>>] = <<>>
  BY <1>1, <1>2, ReplaceNothing
<1>4. F \in [Seq(T) -> Seq(T)]
  BY <1>2, ReplaceEachType
<1>5. ASSUME NEW r \in Seq(T) PROVE F[pattern \o r] = new \o F[r]
  <2>. DEFINE s == pattern \o r
  <2>1. s \in Seq(T) /\ Joins(s, pattern, r)
    BY <1>1 DEF Joins
  <2>. HIDE DEF s
  <2>2. ReplaceEach(s, pattern, new) = new \o ReplaceEach(r, pattern, new)
    BY <1>1, <1>2, <2>1, ReplaceHit
  <2>. QED
    BY <2>1, <2>2, Zenon DEF s
<1>6. ASSUME NEW x \in T \ {t}, NEW r \in Seq(T) PROVE F[<<x>> \o r] = <<x>> \o F[r]
  <2>. DEFINE s == <<x>> \o r
  <2>1. s \in Seq(T) /\ Joins(s, <<x>>, r)
    BY DEF Joins
  <2>. HIDE DEF s
  <2>2. ~HasAt(s, 1, pattern)
    <3>1. s \in Seq(T) /\ 1 \in 1 .. Len(s) /\ s[1] = x /\ x # t
      BY DEF s
    <3>2. ~HasAt(s, 1, <<t>>)
      BY <3>1, HasOneAt
    <3>. QED
      BY <3>2 DEF pattern
  <2>3. ReplaceEach(s, pattern, new) = <<x>> \o ReplaceEach(r, pattern, new)
    <3>. x \in T
      OBVIOUS
    <3>. QED
      BY <1>2, <2>1, <2>2, ReplaceMiss
  <2>. QED
    BY <2>1, <2>3, Zenon DEF s
<1>7. ReplacesOne(T, t, new, F)
  <2>1. \A r \in Seq(T) : F[<<t>> \o r] = new \o F[r]
    BY <1>5, Zenon DEF pattern
  <2>. HIDE DEF F
  <2>. QED
    BY <1>3, <1>4, <1>6, <2>1, Zenon DEF ReplacesOne
<1>. QED
  BY <1>7 DEF pattern

LEMMA ReplaceTwoLaws ==
  ASSUME NEW T, NEW t \in T, NEW u \in T, NEW new \in Seq(T)
  PROVE  ReplacesTwo(T, t, u, new, [s \in Seq(T) |-> ReplaceEach(s, <<t, u>>, new)])
<1>. DEFINE pattern == <<t, u>>
            F == [s \in Seq(T) |-> ReplaceEach(s, pattern, new)]
<1>1. Len(pattern) \in Nat \ {0} /\ pattern \in Seq(T) /\ <<>> \in Seq(T) /\ Len(<<>>) = 0
  OBVIOUS
<1>. HIDE DEF pattern
<1>2. \A s \in Seq(T) : Replaceable(T, s, pattern, new)
  BY <1>1 DEF Replaceable
<1>3. F[<<>>] = <<>>
  BY <1>1, <1>2, ReplaceNothing
<1>4. F \in [Seq(T) -> Seq(T)]
  BY <1>2, ReplaceEachType
<1>5. ASSUME NEW r \in Seq(T) PROVE F[pattern \o r] = new \o F[r]
  <2>. DEFINE s == pattern \o r
  <2>1. s \in Seq(T) /\ Joins(s, pattern, r)
    BY <1>1 DEF Joins
  <2>. HIDE DEF s
  <2>2. ReplaceEach(s, pattern, new) = new \o ReplaceEach(r, pattern, new)
    BY <1>1, <1>2, <2>1, ReplaceHit
  <2>. QED
    BY <2>1, <2>2, Zenon DEF s
<1>6. ASSUME NEW x \in T, NEW r \in Seq(T), x = t /\ r # <<>> => r[1] # u
      PROVE  F[<<x>> \o r] = <<x>> \o F[r]
  <2>. DEFINE s == <<x>> \o r
  <2>1. s \in Seq(T) /\ Joins(s, <<x>>, r)
    BY DEF Joins
  <2>. HIDE DEF s
  <2>2. ~HasAt(s, 1, pattern)
    <3>1. /\ s \in Seq(T) /\ 1 \in 1 .. Len(s) /\ s[1] = x
          /\ 1 + 1 <= Len(s) => r # <<>> /\ s[1 + 1] = r[1]
      BY DEF s
    <3>2. ~HasAt(s, 1, <<t, u>>)
      BY <1>6, <3>1, HasTwoAt
    <3>. QED
      BY <3>2 DEF pattern
  <2>3. ReplaceEach(s, pattern, new) = <<x>> \o ReplaceEach(r, pattern, new)
    BY <1>2, <2>1, <2>2, ReplaceMiss
  <2>. QED
    BY <2>1, <2>3, Zenon DEF s
<1>7. ReplacesTwo(T, t, u, new, F)
  <2>1. \A r \in Seq(T) : F[<<t, u>> \o r] = new \o F[r]
    BY <1>5, Zenon DEF pattern
  <2>. HIDE DEF F
  <2>. QED
    BY <1>3, <1>4, <1>6, <2>1, Zenon DEF ReplacesTwo
<1>. QED
  BY <1>7 DEF pattern

-----------------------------------------------------------------------------
(* Doubling, masking and unmasking a token d, with a mask m.               *)

\* A text whose every d is doubled is masked where its d's are.
LEMMA DoubledIsMasked ==
  ASSUME NEW T, NEW d \in T, NEW m \in T,
         NEW A, ReplacesOne(T, d, <<d, d>>, A), NEW B, ReplacesTwo(T, d, d, <<m>>, B),
         NEW C, ReplacesOne(T, d, <<m>>, C)
  PROVE  \A s \in Seq(T) : B[A[s]] = C[s]
<1>. DEFINE S == {s \in Seq(T) : B[A[s]] = C[s]}
<1>1. ASSUME NEW s \in Seq(T), \A r \in Seq(T) : Len(r) < Len(s) => r \in S PROVE s \in S
  <2>1. CASE s = <<>>
    BY <2>1, Zenon DEF ReplacesOne, ReplacesTwo
  <2>2. CASE s # <<>>
    <3>1. PICK x \in T, r \in Seq(T) : s = <<x>> \o r /\ Len(r) < Len(s)
      BY <2>2, HeadAndRest
    <3>2. A[r] \in Seq(T) /\ B[A[r]] = C[r]
      BY <1>1, <3>1, Zenon DEF ReplacesOne
    <3>3. CASE x = d
      <4>1. A[s] = <<d, d>> \o A[r] /\ C[s] = <<m>> \o C[r]
        BY <3>1, <3>3, Zenon DEF ReplacesOne
      <4>2. B[<<d, d>> \o A[r]] = <<m>> \o B[A[r]]
        BY <3>2, Zenon DEF ReplacesTwo
      <4>. QED
        BY <3>2, <4>1, <4>2, Zenon
    <3>4. CASE x # d
      <4>1. A[s] = <<x>> \o A[r] /\ C[s] = <<x>> \o C[r]
        BY <3>1, <3>4, Zenon DEF ReplacesOne
      <4>2. B[<<x>> \o A[r]] = <<x>> \o B[A[r]]
        BY <3>2, <3>4, Zenon DEF ReplacesTwo
      <4>. QED
        BY <3>2, <4>1, <4>2, Zenon
    <3>. QED
      BY <3>3, <3>4
  <2>. QED
    BY <2>1, <2>2
<1>2. Seq(T) \subseteq S
  <2>. HIDE DEF S
  <2>. QED
    BY <1>1, TextInduction, Zenon
<1>. QED
  BY <1>2, Zenon

\* Where every d is masked there is none.
LEMMA MaskedHasNone ==
  ASSUME NEW T, NEW d \in T, NEW m \in T, m # d, NEW C, ReplacesOne(T, d, <<m>>, C)
  PROVE  \A s \in Seq(T) : C[s] \in Seq(T \ {d})
<1>. DEFINE S == {s \in Seq(T) : C[s] \in Seq(T \ {d})}
<1>1. ASSUME NEW s \in Seq(T), \A r \in Seq(T) : Len(r) < Len(s) => r \in S PROVE s \in S
  <2>1. CASE s = <<>>
    <3>1. C[s] = <<>>
      BY <2>1, Zenon DEF ReplacesOne
    <3>. QED
      BY <3>1, EmptySeq
  <2>2. CASE s # <<>>
    <3>1. PICK x \in T, r \in Seq(T) : s = <<x>> \o r /\ Len(r) < Len(s)
      BY <2>2, HeadAndRest
    <3>2. C[r] \in Seq(T \ {d})
      BY <1>1, <3>1, Zenon
    <3>3. PICK y \in T \ {d} : C[s] = <<y>> \o C[r]
      <4>1. CASE x = d
        <5>1. C[s] = <<m>> \o C[r] /\ m \in T \ {d}
          BY <3>1, <4>1, Zenon DEF ReplacesOne
        <5>. QED
          BY <5>1, Zenon
      <4>2. CASE x # d
        BY <3>1, <4>2, Zenon DEF ReplacesOne
      <4>. QED
        BY <4>1, <4>2
    <3>4. <<y>> \in Seq(T \ {d})
      OBVIOUS
    <3>5. <<y>> \o C[r] \in Seq(T \ {d})
      BY <3>2, <3>4, ConcatProperties
    <3>. QED
      BY <3>3, <3>5, Zenon
  <2>. QED
    BY <2>1, <2>2
<1>2. Seq(T) \subseteq S
  <2>. HIDE DEF S
  <2>. QED
    BY <1>1, TextInduction, Zenon
<1>. QED
  BY <1>2, Zenon

\* A text without the mask comes back when it is masked and unmasked.
LEMMA UnmaskedIsBack ==
  ASSUME NEW T, NEW d \in T, NEW m \in T, m # d,
         NEW C, ReplacesOne(T, d, <<m>>, C), NEW U, ReplacesOne(T, m, <<d>>, U)
  PROVE  \A s \in Seq(T \ {m}) : U[C[s]] = s
<1>. DEFINE S == {s \in Seq(T \ {m}) : U[C[s]] = s}
<1>0. Seq(T \ {m}) \subseteq Seq(T)
  BY SeqMonotonic
<1>1. ASSUME NEW s \in Seq(T \ {m}), \A r \in Seq(T \ {m}) : Len(r) < Len(s) => r \in S
      PROVE  s \in S
  <2>1. CASE s = <<>>
    BY <2>1, Zenon DEF ReplacesOne
  <2>2. CASE s # <<>>
    <3>1. PICK x \in T \ {m}, r \in Seq(T \ {m}) : s = <<x>> \o r /\ Len(r) < Len(s)
      BY <2>2, HeadAndRest
    <3>2. U[C[r]] = r /\ r \in Seq(T) /\ C[r] \in Seq(T)
      BY <1>0, <1>1, <3>1, Zenon DEF ReplacesOne
    <3>3. CASE x = d
      <4>1. C[s] = <<m>> \o C[r]
        BY <3>1, <3>2, <3>3, Zenon DEF ReplacesOne
      <4>2. U[<<m>> \o C[r]] = <<d>> \o U[C[r]]
        BY <3>2, Zenon DEF ReplacesOne
      <4>. QED
        BY <3>1, <3>2, <3>3, <4>1, <4>2, Zenon
    <3>4. CASE x # d
      <4>0. x \in T /\ x \in T \ {m} /\ x \in T \ {d}
        BY <3>4, Zenon
      <4>1. C[s] = <<x>> \o C[r]
        BY <3>1, <3>2, <4>0, Zenon DEF ReplacesOne
      <4>2. U[<<x>> \o C[r]] = <<x>> \o U[C[r]]
        BY <3>2, <4>0, Zenon DEF ReplacesOne
      <4>. QED
        BY <3>1, <3>2, <4>1, <4>2, Zenon
    <3>. QED
      BY <3>3, <3>4
  <2>. QED
    BY <2>1, <2>2
<1>2. Seq(T \ {m}) \subseteq S
  <2>. HIDE DEF S
  <2>. QED
    BY <1>1, TextInduction, Zenon
<1>. QED
  BY <1>2, Zenon

-----------------------------------------------------------------------------
(* The references of interpolationRegex, token by token.                   *)

Dollar == "$"
Open == "{"
Brace == "}"
Colon == ":"
Dash == "-"

LEMMA Marks ==
  /\ {Dollar, Open, Brace, Colon, Dash} \subseteq Char
  /\ Name \cap {Dollar, Open, Brace, Colon, Dash} = {}
  /\ Brace # Colon /\ Dollar # Open /\ Dollar # Brace /\ Dollar # Colon /\ Dollar # Dash
  /\ Brace # Dash /\ Brace # Open
  /\ Mask \notin Char /\ Unset \notin Char /\ Mask # Unset /\ Mask \notin Name
<1>1. /\ {Dollar, Open, Brace, Colon, Dash} \subseteq Char
      /\ Name \cap {Dollar, Open, Brace, Colon, Dash} = {}
  BY CharAssumption, Zenon DEF Dollar, Open, Brace, Colon, Dash
<1>2. /\ Brace # Colon /\ Dollar # Open /\ Dollar # Brace /\ Dollar # Colon /\ Dollar # Dash
      /\ Brace # Dash /\ Brace # Open
  BY Zenon DEF Dollar, Open, Brace, Colon, Dash
<1>3. Mask \notin Char /\ Unset \notin Char /\ Mask # Unset /\ Mask \notin Name
  BY CharAssumption, Zenon
<1>. QED
  BY <1>1, <1>2, <1>3, Zenon

\* The name and what follows it, at the start of a text or behind another.
IsMatch(s, i) ==
  /\ i + 3 <= Len(s)
  /\ s[i] = Dollar /\ s[i + 1] = Open /\ s[i + 2] \in Name
  /\ \/ s[i + 3] = Brace
     \/ /\ i + 4 <= Len(s) /\ s[i + 3] = Colon /\ s[i + 4] = Dash
        /\ \E j \in i + 5 .. Len(s) : s[j] = Brace

LEMMA MatchesMeans ==
  ASSUME NEW T, NEW s \in Seq(T), NEW i \in 1 .. Len(s)
  PROVE  MatchesAt(s, i) <=> IsMatch(s, i)
<1>1. /\ i + 3 \in Nat \ {0} /\ i + 5 \in Nat \ {0} /\ Len(s) \in Nat
      /\ i + 3 <= Len(s) => i + 3 \in 1 .. Len(s) /\ i + 1 <= Len(s)
      /\ i + 3 + 1 = i + 4
  OBVIOUS
<1>2. HasAt(s, i, <<Dollar, Open>>) <=> i + 1 <= Len(s) /\ s[i] = Dollar /\ s[i + 1] = Open
  BY HasTwoAt
<1>3. ASSUME i + 3 <= Len(s)
      PROVE  HasAt(s, i + 3, <<Colon, Dash>>)
             <=> i + 4 <= Len(s) /\ s[i + 3] = Colon /\ s[i + 4] = Dash
  <2>1. i + 3 \in 1 .. Len(s)
    BY <1>1, <1>3
  <2>2. HasAt(s, i + 3, <<Colon, Dash>>)
        <=> i + 3 + 1 <= Len(s) /\ s[i + 3] = Colon /\ s[i + 3 + 1] = Dash
    BY <2>1, HasTwoAt
  <2>. QED
    BY <1>1, <2>2, Zenon
<1>4. IndexFrom(s, i + 5, Brace) # 0 <=> \E j \in i + 5 .. Len(s) : s[j] = Brace
  <2>. DEFINE k == i + 5
  <2>1. k \in Nat \ {0}
    BY <1>1
  <2>2. IndexFrom(s, k, Brace) # 0 <=> \E j \in k .. Len(s) : s[j] = Brace
    <3>. HIDE DEF k
    <3>1. CASE IndexFrom(s, k, Brace) = 0 /\ \A j \in k .. Len(s) : s[j] # Brace
      BY <3>1
    <3>2. CASE /\ IndexFrom(s, k, Brace) \in k .. Len(s)
               /\ s[IndexFrom(s, k, Brace)] = Brace
      BY <2>1, <3>2
    <3>. QED
      BY <2>1, <3>1, <3>2, FirstOccurrence
  <2>. QED
    BY <2>2
<1>5. MatchesAt(s, i) <=>
        /\ HasAt(s, i, <<Dollar, Open>>)
        /\ i + 3 <= Len(s)
        /\ s[i + 2] \in Name
        /\ \/ s[i + 3] = Brace
           \/ HasAt(s, i + 3, <<Colon, Dash>>) /\ IndexFrom(s, i + 5, Brace) # 0
  BY Zenon DEF MatchesAt, Dollar, Open, Brace, Colon, Dash
<1>. QED
  BY <1>1, <1>2, <1>3, <1>4, <1>5, Zenon DEF IsMatch

\* The end of a match: the first closing brace behind the name.
LEMMA MatchEndMeans ==
  ASSUME NEW T, NEW s \in Seq(T), NEW i \in 1 .. Len(s), IsMatch(s, i)
  PROVE  /\ MatchEnd(s, i) \in i + 3 .. Len(s)
         /\ s[MatchEnd(s, i)] = Brace
         /\ \A j \in i + 3 .. MatchEnd(s, i) - 1 : s[j] # Brace
         /\ s[i + 3] # Brace => MatchEnd(s, i) >= i + 5
<1>. DEFINE k == i + 3
<1>1. k \in Nat \ {0}
  OBVIOUS
<1>2. \E j \in k .. Len(s) : s[j] = Brace
  BY DEF IsMatch
<1>3. MatchEnd(s, i) = IndexFrom(s, k, Brace)
  BY Zenon DEF MatchEnd, Brace
<1>. HIDE DEF k
<1>4. /\ MatchEnd(s, i) \in k .. Len(s)
      /\ s[MatchEnd(s, i)] = Brace
      /\ \A j \in k .. MatchEnd(s, i) - 1 : s[j] # Brace
  BY <1>1, <1>2, <1>3, FirstOccurrence
<1>5. ASSUME s[i + 3] # Brace PROVE MatchEnd(s, i) >= i + 5
  <2>1. s[i + 4] = Dash
    BY <1>5 DEF IsMatch
  <2>2. MatchEnd(s, i) # i + 3 /\ MatchEnd(s, i) # i + 4
    BY <1>4, <1>5, <2>1, Marks, Zenon
  <2>. QED
    BY <1>4, <2>2 DEF k
<1>. QED
  BY <1>4, <1>5 DEF k

\* A match lies in a text as it does behind another.
LEMMA MatchBehind ==
  ASSUME NEW T, NEW p \in Seq(T), NEW r \in Seq(T), NEW s, Joins(s, p, r), NEW i \in 1 .. Len(r)
  PROVE  /\ MatchesAt(s, i + Len(p)) <=> MatchesAt(r, i)
         /\ MatchesAt(r, i) =>
              /\ MatchEnd(s, i + Len(p)) = MatchEnd(r, i) + Len(p)
              /\ s[i + Len(p) + 2] = r[i + 2]
              /\ HasDefault(s, i + Len(p)) <=> HasDefault(r, i)
              /\ HasDefault(r, i) => DefaultAt(s, i + Len(p)) = DefaultAt(r, i)
<1>. DEFINE k == Len(p)
            a == i + k
            n == Len(r)
<1>1. /\ s \in Seq(T) /\ k \in Nat /\ n \in Nat /\ Len(s) = n + k /\ a \in 1 .. Len(s)
      /\ \A j \in 1 .. n : s[j + k] = r[j]
  BY DEF Joins
<1>2. i \in 1 .. n /\ a = i + k /\ i \in Nat /\ a \in Nat
  OBVIOUS
<1>. HIDE DEF k, n, a
<1>3. IsMatch(s, a) <=> IsMatch(r, i)
  <2>1. (a + 3 <= Len(s) <=> i + 3 <= n) /\ (a + 4 <= Len(s) <=> i + 4 <= n)
    <3>1. Len(s) = n + k /\ a = i + k /\ i \in Nat /\ k \in Nat /\ n \in Nat
      BY <1>1, <1>2
    <3>. QED
      BY <3>1
  <2>2. s[a] = r[i] /\ \A c \in 1 .. 4 : i + c <= n => s[a + c] = r[i + c]
    <3>1. s[a] = r[i]
      BY <1>1, <1>2
    <3>2. ASSUME NEW c \in 1 .. 4, i + c <= n PROVE s[a + c] = r[i + c]
      <4>1. i + c \in 1 .. n /\ a + c = i + c + k
        BY <1>1, <1>2, <3>2
      <4>. QED
        BY <1>1, <4>1
    <3>. QED
      BY <3>1, <3>2
  <2>3. (\E j \in a + 5 .. Len(s) : s[j] = Brace) <=> \E j \in i + 5 .. n : r[j] = Brace
    <3>1. ASSUME NEW j \in a + 5 .. Len(s), s[j] = Brace PROVE \E l \in i + 5 .. n : r[l] = Brace
      <4>1. j - k \in i + 5 .. n /\ j - k \in 1 .. n /\ j - k + k = j
        BY <1>1, <1>2
      <4>2. r[j - k] = Brace
        BY <1>1, <3>1, <4>1
      <4>. QED
        BY <4>1, <4>2
    <3>2. ASSUME NEW j \in i + 5 .. n, r[j] = Brace PROVE \E l \in a + 5 .. Len(s) : s[l] = Brace
      <4>1. j + k \in a + 5 .. Len(s) /\ j \in 1 .. n
        BY <1>1, <1>2
      <4>. QED
        BY <1>1, <3>2, <4>1
    <3>. QED
      BY <3>1, <3>2
  <2>4. i + 3 <= n => s[a + 1] = r[i + 1] /\ s[a + 2] = r[i + 2] /\ s[a + 3] = r[i + 3]
    BY <1>1, <1>2, <2>2
  <2>5. i + 4 <= n => s[a + 4] = r[i + 4]
    BY <2>2
  <2>6. s[a] = r[i]
    BY <2>2
  <2>. QED
    BY <2>1, <2>3, <2>4, <2>5, <2>6, Zenon DEF IsMatch, n
<1>4. MatchesAt(s, a) <=> MatchesAt(r, i)
  <2>1. MatchesAt(s, a) <=> IsMatch(s, a)
    BY <1>1, MatchesMeans
  <2>2. MatchesAt(r, i) <=> IsMatch(r, i)
    BY MatchesMeans
  <2>. QED
    BY <1>3, <2>1, <2>2
<1>5. ASSUME MatchesAt(r, i)
      PROVE  /\ MatchEnd(s, a) = MatchEnd(r, i) + k
             /\ s[a + 2] = r[i + 2]
             /\ HasDefault(s, a) <=> HasDefault(r, i)
             /\ HasDefault(r, i) => DefaultAt(s, a) = DefaultAt(r, i)
  <2>1. IsMatch(r, i) /\ IsMatch(s, a)
    BY <1>3, <1>5, MatchesMeans
  <2>. DEFINE e == MatchEnd(r, i)
              b == MatchEnd(s, a)
  <2>2. /\ e \in i + 3 .. n /\ r[e] = Brace /\ \A j \in i + 3 .. e - 1 : r[j] # Brace
        /\ r[i + 3] # Brace => e >= i + 5
    BY <2>1, MatchEndMeans DEF n
  <2>3. b \in a + 3 .. Len(s) /\ s[b] = Brace /\ \A j \in a + 3 .. b - 1 : s[j] # Brace
    BY <1>1, <2>1, MatchEndMeans
  <2>. HIDE DEF e, b
  <2>4. b = e + k
    <3>1. e + k \in a + 3 .. Len(s) /\ s[e + k] = Brace
      <4>1. e \in i + 3 .. n /\ e \in 1 .. n /\ r[e] = Brace
        BY <1>2, <2>2
      <4>2. s[e + k] = r[e]
        BY <1>1, <4>1
      <4>3. Len(s) = n + k /\ k \in Nat /\ n \in Nat /\ a = i + k /\ i \in Nat
        BY <1>1, <1>2
      <4>4. e + k \in a + 3 .. Len(s)
        <5>. HIDE DEF a, k, n
        <5>. QED
          BY <4>1, <4>3
      <4>. QED
        BY <4>1, <4>2, <4>4
    <3>2. b <= e + k
      BY <1>1, <2>3, <3>1
    <3>3. b - k \in i + 3 .. n /\ b - k \in 1 .. n /\ b - k + k = b
      BY <1>1, <1>2, <2>3
    <3>4. r[b - k] = Brace
      BY <1>1, <2>3, <3>3
    <3>5. e <= b - k
      BY <1>1, <2>2, <3>3, <3>4
    <3>6. b \in Int /\ e \in Int /\ k \in Int
      BY <1>1, <1>2, <2>2, <2>3
    <3>. QED
      BY <3>2, <3>5, <3>6
  <2>5. /\ i + 2 \in 1 .. n /\ i + 3 \in 1 .. n /\ i + 2 + k = a + 2 /\ i + 3 + k = a + 3
    BY <1>1, <1>2, <2>2
  <2>6. s[a + 2] = r[i + 2] /\ s[a + 3] = r[i + 3]
    BY <1>1, <2>5
  <2>7. ASSUME HasDefault(r, i) PROVE DefaultAt(s, a) = DefaultAt(r, i)
    <3>1. r[i + 3] # Brace
      <4>1. r[i + 3] = Colon
        BY <2>7, Zenon DEF HasDefault, Colon
      <4>. QED
        BY <4>1, Marks, Zenon
    <3>2. e >= i + 5 /\ e \in Int /\ i \in Int /\ a \in Int
      BY <1>1, <1>2, <2>2, <3>1
    <3>3. CASE e = i + 5
      <4>1. /\ e - 1 < i + 5 /\ b - 1 < a + 5 /\ i + 5 \in Int /\ e - 1 \in Int
            /\ a + 5 \in Int /\ b - 1 \in Int
        <5>1. b = e + k /\ a = i + k /\ k \in Int
          BY <1>1, <1>2, <2>4
        <5>. QED
          BY <3>2, <3>3, <5>1
      <4>2. SubSeq(r, i + 5, e - 1) = <<>> /\ SubSeq(s, a + 5, b - 1) = <<>>
        BY <4>1, SubSeqEmpty
      <4>. QED
        BY <4>2 DEF DefaultAt, e, b
    <3>4. CASE e # i + 5
      <4>. DEFINE x == a + 5
                  y == b - 1
      <4>1. /\ x \in k + 1 .. k + n /\ y \in k + 1 .. k + n
            /\ x - k = i + 5 /\ y - k = e - 1
        BY <1>1, <1>2, <2>2, <2>4, <3>2, <3>4
      <4>2. SubSeq(s, x, y) = SubSeq(r, x - k, y - k)
        <5>. HIDE DEF x, y
        <5>. QED
          BY <4>1, SubSeqOfConcat2 DEF Joins, k, n
      <4>. QED
        BY <4>1, <4>2, Zenon DEF DefaultAt, e, b
    <3>. QED
      BY <3>3, <3>4
  <2>. QED
    BY <2>4, <2>6, <2>7 DEF HasDefault, e, b
<1>. QED
  BY <1>4, <1>5 DEF a, k

-----------------------------------------------------------------------------
(* Readers: texts made of texts by scans that do not look back.            *)

\* G is the scan that out and next give for each text, and a text p before
\* another only puts it off.
IsReader(T, extra, out, next, G) ==
  /\ extra \in Nat \ {0}
  /\ G \in [Seq(T) -> Seq(T)]
  /\ \A s \in Seq(T) :
        /\ ScanOf(T, Len(s), Len(s) + extra, out[s], next[s])
        /\ \E f : IsScan(Len(s), Len(s) + extra, out[s], next[s], f) /\ G[s] = f[1]
  /\ \A p, r \in Seq(T) :
        IsShifted(Len(r), Len(p), out[r], next[r], out[p \o r], next[p \o r])

\* What a reader has read is written, and the rest is read by itself.
ReadsOn(T, out, next, G) ==
  /\ G[<<>>] = <<>>
  /\ \A p, r \in Seq(T) :
        p \o r # <<>> /\ next[p \o r][1] = Len(p) + 1 => G[p \o r] = out[p \o r][1] \o G[r]

LEMMA ReaderLaws ==
  ASSUME NEW T, NEW extra, NEW out, NEW next, NEW G, IsReader(T, extra, out, next, G)
  PROVE  ReadsOn(T, out, next, G)
<1>1. G[<<>>] = <<>>
  <2>1. <<>> \in Seq(T) /\ Len(<<>>) = 0 /\ extra \in Nat \ {0}
    BY DEF IsReader
  <2>2. PICK f : IsScan(Len(<<>>), Len(<<>>) + extra, out[<<>>], next[<<>>], f) /\ G[<<>>] = f[1]
    BY <2>1, Zenon DEF IsReader
  <2>3. 1 \in 1 .. Len(<<>>) + extra /\ 1 > Len(<<>>)
    BY <2>1
  <2>4. f[1] = <<>>
    BY <2>2, <2>3, Zenon DEF IsScan, Turn
  <2>. QED
    BY <2>2, <2>4, Zenon
<1>2. ASSUME NEW p \in Seq(T), NEW r \in Seq(T), p \o r # <<>>, next[p \o r][1] = Len(p) + 1
      PROVE  G[p \o r] = out[p \o r][1] \o G[r]
  <2>. DEFINE s == p \o r
              n == Len(r)
              k == Len(p)
              top == Len(r) + extra
  <2>1. /\ s \in Seq(T) /\ n \in Nat /\ k \in Nat /\ Len(s) = n + k /\ s # <<>> /\ r \in Seq(T)
        /\ extra \in Nat \ {0} /\ top \in Nat /\ Len(s) + extra = top + k
        /\ next[s][1] = k + 1 /\ 1 \in 1 .. top
    BY <1>2 DEF IsReader
  <2>2. IsShifted(n, k, out[r], next[r], out[s], next[s])
    BY Zenon DEF IsReader
  <2>. HIDE DEF s
  <2>3. 1 \in 1 .. Len(s) + extra /\ ~(1 > Len(s))
    BY <2>1
  <2>4. PICK f : IsScan(n, top, out[r], next[r], f) /\ G[r] = f[1]
    BY Zenon DEF IsReader
  <2>5. PICK g : IsScan(Len(s), Len(s) + extra, out[s], next[s], g) /\ G[s] = g[1]
    BY <2>1, Zenon DEF IsReader
  <2>6. ScanOf(T, n, top, out[r], next[r])
    BY Zenon DEF IsReader
  <2>7. g[1] = out[s][1] \o g[next[s][1]]
    BY <2>3, <2>5, Zenon DEF IsScan, Turn
  <2>8. IsScan(n + k, top + k, out[s], next[s], g)
    BY <2>1, <2>5, Zenon
  <2>. DEFINE o == out[r]
              o2 == out[s]
              x == next[r]
              x2 == next[s]
  <2>9. /\ ScanOf(T, n, top, o, x) /\ IsScan(n, top, o, x, f)
        /\ IsScan(n + k, top + k, o2, x2, g) /\ IsShifted(n, k, o, x, o2, x2)
        /\ k \in Nat /\ 1 \in 1 .. top
    BY <2>1, <2>2, <2>4, <2>6, <2>8
  <2>10. g[1 + k] = f[1]
    <3>. HIDE DEF o, o2, x, x2, n, k, top
    <3>. QED
      BY <2>9, ScanShift
  <2>11. 1 + k = k + 1
    BY <2>1
  <2>12. G[s] = out[s][1] \o G[r]
    <3>. HIDE DEF k, n, top
    <3>. QED
      BY <2>1, <2>4, <2>5, <2>7, <2>10, <2>11, Zenon
  <2>. QED
    BY <2>12 DEF s
<1>. QED
  BY <1>1, <1>2, Zenon DEF ReadsOn

-----------------------------------------------------------------------------
(* interpolateString reads a text once from the left.                      *)

\* The tokens of a text on its way through the stages.
Tok == Char \cup {Mask, Unset}

\* The environments of the model: functions from names to texts.
IsEnv(env) == \A name \in DOMAIN env : env[name] \in Seq(Char)

LEMMA EnvType ==
  ASSUME NEW env, IsEnv(env), NEW name, IsSet(env, name)
  PROVE  env[name] \in Seq(Char) /\ env[name] \in Seq(Tok)
<1>1. env[name] \in Seq(Char)
  BY DEF IsEnv, IsSet
<1>2. Char \subseteq Tok
  BY DEF Tok
<1>. QED
  BY <1>1, <1>2, SeqMonotonic

LEMMA DefaultType ==
  ASSUME NEW T, NEW s \in Seq(T), NEW i \in 1 .. Len(s), MatchesAt(s, i)
  PROVE  DefaultAt(s, i) \in Seq(T)
<1>1. MatchEnd(s, i) \in i + 3 .. Len(s)
  BY MatchesMeans, MatchEndMeans
<1>. DEFINE a == i + 5
            b == MatchEnd(s, i) - 1
<1>2. a \in Int /\ b \in Int /\ \A j \in a .. b : s[j] \in T
  BY <1>1
<1>. HIDE DEF a, b
<1>3. SubSeq(s, a, b) \in Seq(T)
  BY <1>2, SubSeqProperties
<1>. QED
  BY <1>3 DEF DefaultAt, a, b

\* What stands in for a match is a text.
LEMMA ReplacementType ==
  ASSUME NEW s \in Seq(Tok), NEW i \in 1 .. Len(s), MatchesAt(s, i), NEW env, IsEnv(env)
  PROVE  Replacement(s, i, env) \in Seq(Tok)
<1>1. IsSet(env, s[i + 2]) => env[s[i + 2]] \in Seq(Tok)
  BY EnvType
<1>2. DefaultAt(s, i) \in Seq(Tok)
  BY DefaultType
<1>3. <<Unset>> \in Seq(Tok) /\ <<>> \in Seq(Tok)
  BY DEF Tok
<1>. QED
  BY <1>1, <1>2, <1>3 DEF Replacement

\* It is the same where the match lies behind another text.
LEMMA ReplacementBehind ==
  ASSUME NEW s, NEW r, NEW a, NEW i, NEW env, s[a + 2] = r[i + 2],
         HasDefault(s, a) <=> HasDefault(r, i),
         HasDefault(r, i) => DefaultAt(s, a) = DefaultAt(r, i)
  PROVE  Replacement(s, a, env) = Replacement(r, i, env)
<1>1. CASE HasDefault(r, i)
  <2>1. HasDefault(s, a) /\ DefaultAt(s, a) = DefaultAt(r, i)
    BY <1>1
  <2>. QED
    BY <1>1, <2>1, Zenon DEF Replacement
<1>2. CASE ~HasDefault(r, i)
  <2>1. ~HasDefault(s, a)
    BY <1>2
  <2>. QED
    BY <1>2, <2>1 DEF Replacement
<1>. QED
  BY <1>1, <1>2

LEMMA ReadValueBehind ==
  ASSUME NEW s, NEW r, NEW a, NEW i, NEW env, s[a + 2] = r[i + 2],
         HasDefault(s, a) <=> HasDefault(r, i),
         HasDefault(r, i) => DefaultAt(s, a) = DefaultAt(r, i)
  PROVE  ReadValue(s, a, env) = ReadValue(r, i, env)
<1>1. CASE HasDefault(r, i)
  <2>1. HasDefault(s, a) /\ DefaultAt(s, a) = DefaultAt(r, i)
    BY <1>1
  <2>. QED
    BY <1>1, <2>1, Zenon DEF ReadValue
<1>2. CASE ~HasDefault(r, i)
  <2>1. ~HasDefault(s, a)
    BY <1>2
  <2>. QED
    BY <1>2, <2>1, Zenon DEF ReadValue
<1>. QED
  BY <1>1, <1>2

SubstituteOut(s, env) ==
  [i \in 1 .. Len(s) |-> IF MatchesAt(s, i) THEN Replacement(s, i, env) ELSE <<s[i]>>]
SubstituteNext(s) ==
  [i \in 1 .. Len(s) |-> IF MatchesAt(s, i) THEN MatchEnd(s, i) + 1 ELSE i + 1]

\* The turn of the substitution at position i.
Substitutes(s, env, i, f) ==
  IF i > Len(s) THEN <<>>
  ELSE IF MatchesAt(s, i) THEN Replacement(s, i, env) \o f[MatchEnd(s, i) + 1]
  ELSE <<s[i]>> \o f[i + 1]

LEMMA SubstituteScanOf ==
  ASSUME NEW s \in Seq(Tok), NEW env, IsEnv(env)
  PROVE  ScanOf(Tok, Len(s), Len(s) + 1, SubstituteOut(s, env), SubstituteNext(s))
<1>. DEFINE n == Len(s)
<1>1. n \in Nat /\ n + 1 \in Nat
  OBVIOUS
<1>2. ASSUME NEW i \in 1 .. n
      PROVE  /\ SubstituteOut(s, env)[i] \in Seq(Tok)
             /\ SubstituteNext(s)[i] \in 1 .. n + 1 /\ SubstituteNext(s)[i] > i
  <2>1. CASE MatchesAt(s, i)
    <3>1. MatchEnd(s, i) \in i + 3 .. n /\ Replacement(s, i, env) \in Seq(Tok)
      BY <2>1, MatchesMeans, MatchEndMeans, ReplacementType
    <3>2. /\ SubstituteOut(s, env)[i] = Replacement(s, i, env)
          /\ SubstituteNext(s)[i] = MatchEnd(s, i) + 1
      BY <2>1, Zenon DEF SubstituteOut, SubstituteNext
    <3>3. MatchEnd(s, i) + 1 \in 1 .. n + 1 /\ MatchEnd(s, i) + 1 > i
      BY <1>1, <3>1
    <3>. QED
      BY <3>1, <3>2, <3>3
  <2>2. CASE ~MatchesAt(s, i)
    <3>1. SubstituteOut(s, env)[i] = <<s[i]>> /\ SubstituteNext(s)[i] = i + 1
      BY <2>2, Zenon DEF SubstituteOut, SubstituteNext
    <3>2. <<s[i]>> \in Seq(Tok) /\ i + 1 \in 1 .. n + 1 /\ i + 1 > i
      OBVIOUS
    <3>. QED
      BY <3>1, <3>2
  <2>. QED
    BY <2>1, <2>2
<1>3. /\ SubstituteOut(s, env) = [i \in 1 .. n |-> SubstituteOut(s, env)[i]]
      /\ SubstituteNext(s) = [i \in 1 .. n |-> SubstituteNext(s)[i]]
  BY Zenon DEF SubstituteOut, SubstituteNext
<1>. HIDE DEF n
<1>4. SubstituteOut(s, env) \in [1 .. n -> Seq(Tok)] /\ SubstituteNext(s) \in [1 .. n -> 1 .. n + 1]
  BY <1>2, <1>3
<1>5. ScanOf(Tok, n, n + 1, SubstituteOut(s, env), SubstituteNext(s))
  BY <1>1, <1>2, <1>4 DEF ScanOf
<1>. QED
  BY <1>5 DEF n

LEMMA SubstituteTurn ==
  ASSUME NEW s \in Seq(Tok), NEW env, NEW i \in 1 .. Len(s) + 1, NEW f
  PROVE  Turn(Len(s), SubstituteOut(s, env), SubstituteNext(s), i, f) = Substitutes(s, env, i, f)
<1>1. CASE i > Len(s)
  BY <1>1 DEF Turn, Substitutes
<1>2. CASE ~(i > Len(s))
  <2>1. i \in 1 .. Len(s)
    BY <1>2
  <2>2. /\ SubstituteOut(s, env)[i] = IF MatchesAt(s, i) THEN Replacement(s, i, env) ELSE <<s[i]>>
        /\ SubstituteNext(s)[i] = IF MatchesAt(s, i) THEN MatchEnd(s, i) + 1 ELSE i + 1
    BY <2>1, Zenon DEF SubstituteOut, SubstituteNext
  <2>. QED
    BY <1>2, <2>2, Zenon DEF Turn, Substitutes
<1>. QED
  BY <1>1, <1>2

LEMMA SubstitutedScans ==
  ASSUME NEW s \in Seq(Tok), NEW env, IsEnv(env)
  PROVE  \E f : /\ IsScan(Len(s), Len(s) + 1, SubstituteOut(s, env), SubstituteNext(s), f)
                /\ Substituted(s, env) = f[1]
<1>. DEFINE D == 1 .. Len(s) + 1
            Def(f) == f = [i \in D |-> Substitutes(s, env, i, f)]
            v == CHOOSE f : Def(f)
<1>1. PICK f \in [D -> Seq(Tok)] :
         IsScan(Len(s), Len(s) + 1, SubstituteOut(s, env), SubstituteNext(s), f)
  BY SubstituteScanOf, ScanExists
<1>2. Def(f)
  <2>1. \A i \in D : f[i] = Substitutes(s, env, i, f)
    BY <1>1, SubstituteTurn DEF IsScan
  <2>. HIDE DEF D
  <2>. QED
    BY <2>1
<1>3. Def(v)
  <2>. HIDE DEF Def
  <2>. QED
    BY <1>2
<1>4. Substituted(s, env) = v[1]
  BY DEF Substituted, Substitutes
<1>. HIDE DEF v
<1>5. \A i \in D : v[i] = Substitutes(s, env, i, v)
  <2>. HIDE DEF D
  <2>. QED
    BY <1>3
<1>6. IsScan(Len(s), Len(s) + 1, SubstituteOut(s, env), SubstituteNext(s), v)
  BY <1>5, SubstituteTurn DEF IsScan
<1>. QED
  BY <1>4, <1>6

\* The substitution makes a text of a text.
LEMMA SubstitutedType ==
  ASSUME NEW s \in Seq(Tok), NEW env, IsEnv(env)
  PROVE  Substituted(s, env) \in Seq(Tok)
<1>1. PICK f : /\ IsScan(Len(s), Len(s) + 1, SubstituteOut(s, env), SubstituteNext(s), f)
               /\ Substituted(s, env) = f[1]
  BY SubstitutedScans
<1>2. 1 \in 1 .. Len(s) + 1
  OBVIOUS
<1>. QED
  BY <1>1, <1>2, SubstituteScanOf, ScanType

LEMMA SubstitutedReads ==
  ASSUME NEW env, IsEnv(env)
  PROVE  IsReader(Tok, 1, [s \in Seq(Tok) |-> SubstituteOut(s, env)],
                  [s \in Seq(Tok) |-> SubstituteNext(s)], [s \in Seq(Tok) |-> Substituted(s, env)])
<1>. DEFINE out == [s \in Seq(Tok) |-> SubstituteOut(s, env)]
            next == [s \in Seq(Tok) |-> SubstituteNext(s)]
            G == [s \in Seq(Tok) |-> Substituted(s, env)]
<1>1. G \in [Seq(Tok) -> Seq(Tok)]
  BY SubstitutedType
<1>2. \A s \in Seq(Tok) : out[s] = SubstituteOut(s, env) /\ next[s] = SubstituteNext(s)
                          /\ G[s] = Substituted(s, env)
  OBVIOUS
<1>. HIDE DEF out, next, G
<1>3. ASSUME NEW s \in Seq(Tok)
      PROVE  /\ ScanOf(Tok, Len(s), Len(s) + 1, out[s], next[s])
             /\ \E f : IsScan(Len(s), Len(s) + 1, out[s], next[s], f) /\ G[s] = f[1]
  <2>1. ScanOf(Tok, Len(s), Len(s) + 1, out[s], next[s])
    BY <1>2, SubstituteScanOf
  <2>2. PICK f : /\ IsScan(Len(s), Len(s) + 1, SubstituteOut(s, env), SubstituteNext(s), f)
                 /\ Substituted(s, env) = f[1]
    BY SubstitutedScans
  <2>. QED
    BY <1>2, <2>1, <2>2, Zenon
<1>4. ASSUME NEW p \in Seq(Tok), NEW r \in Seq(Tok)
      PROVE  IsShifted(Len(r), Len(p), out[r], next[r], out[p \o r], next[p \o r])
  <2>. DEFINE s == p \o r
              k == Len(p)
              n == Len(r)
  <2>1. /\ s \in Seq(Tok) /\ Joins(s, p, r) /\ k \in Nat /\ n \in Nat /\ Len(s) = k + n
        /\ \A i \in 1 .. n : s[i + k] = r[i]
    BY DEF Joins
  <2>. HIDE DEF s
  <2>2. ASSUME NEW i \in 1 .. n
        PROVE  out[s][i + k] = out[r][i] /\ next[s][i + k] = next[r][i] + k
    <3>. DEFINE a == i + k
    <3>1. /\ MatchesAt(s, a) <=> MatchesAt(r, i)
          /\ MatchesAt(r, i) =>
               /\ MatchEnd(s, a) = MatchEnd(r, i) + k
               /\ s[a + 2] = r[i + 2]
               /\ HasDefault(s, a) <=> HasDefault(r, i)
               /\ HasDefault(r, i) => DefaultAt(s, a) = DefaultAt(r, i)
      BY <2>1, MatchBehind
    <3>2. a \in 1 .. Len(s) /\ a + 1 = i + 1 + k /\ s[a] = r[i]
      BY <2>1
    <3>3. MatchesAt(r, i) => MatchEnd(r, i) \in Int
      BY MatchesMeans, MatchEndMeans
    <3>4. MatchesAt(r, i) => MatchEnd(r, i) + k + 1 = MatchEnd(r, i) + 1 + k
      BY <2>1, <3>3
    <3>. HIDE DEF a
    <3>5. /\ SubstituteOut(s, env)[a] = IF MatchesAt(s, a) THEN Replacement(s, a, env) ELSE <<s[a]>>
          /\ SubstituteNext(s)[a] = IF MatchesAt(s, a) THEN MatchEnd(s, a) + 1 ELSE a + 1
      BY <3>2, Zenon DEF SubstituteOut, SubstituteNext
    <3>6. /\ SubstituteOut(r, env)[i] = IF MatchesAt(r, i) THEN Replacement(r, i, env) ELSE <<r[i]>>
          /\ SubstituteNext(r)[i] = IF MatchesAt(r, i) THEN MatchEnd(r, i) + 1 ELSE i + 1
      BY Zenon DEF SubstituteOut, SubstituteNext
    <3>7. MatchesAt(r, i) => Replacement(s, a, env) = Replacement(r, i, env)
      BY <3>1, ReplacementBehind
    <3>8. /\ SubstituteOut(s, env)[a] = SubstituteOut(r, env)[i]
          /\ SubstituteNext(s)[a] = SubstituteNext(r)[i] + k
      <4>. HIDE DEF k, n
      <4>. QED
        BY <3>1, <3>2, <3>4, <3>5, <3>6, <3>7, Zenon
    <3>9. out[s][a] = out[r][i] /\ next[s][a] = next[r][i] + k
      BY <1>2, <2>1, <3>8, Zenon
    <3>. QED
      BY <3>9 DEF a
  <2>3. IsShifted(n, k, out[r], next[r], out[s], next[s])
    <3>. HIDE DEF n, k
    <3>. QED
      BY <2>2, Zenon DEF IsShifted
  <2>. QED
    BY <2>3 DEF s
<1>5. IsReader(Tok, 1, out, next, G)
  <2>1. 1 \in Nat \ {0}
    OBVIOUS
  <2>. QED
    BY <1>1, <1>3, <1>4, <2>1, Zenon DEF IsReader
<1>. QED
  BY <1>5 DEF out, next, G

\* What the substitution does with a token that begins no match, and with a match.
LEMMA SubstitutedLaws ==
  ASSUME NEW env, IsEnv(env)
  PROVE  /\ Substituted(<<>>, env) = <<>>
         /\ \A x \in Tok, r \in Seq(Tok) :
               ~MatchesAt(<<x>> \o r, 1)
               => Substituted(<<x>> \o r, env) = <<x>> \o Substituted(r, env)
         /\ \A p, r \in Seq(Tok) :
               p \o r # <<>> /\ MatchesAt(p \o r, 1) /\ MatchEnd(p \o r, 1) = Len(p)
               => Substituted(p \o r, env) = Replacement(p \o r, 1, env) \o Substituted(r, env)
<1>. DEFINE out == [s \in Seq(Tok) |-> SubstituteOut(s, env)]
            next == [s \in Seq(Tok) |-> SubstituteNext(s)]
            G == [s \in Seq(Tok) |-> Substituted(s, env)]
<1>1. IsReader(Tok, 1, out, next, G)
  BY SubstitutedReads
<1>2. /\ \A s \in Seq(Tok) : out[s] = SubstituteOut(s, env) /\ next[s] = SubstituteNext(s)
                             /\ G[s] = Substituted(s, env)
      /\ <<>> \in Seq(Tok)
  OBVIOUS
<1>. HIDE DEF out, next, G
<1>3. /\ G[<<>>] = <<>>
      /\ \A p, r \in Seq(Tok) :
            p \o r # <<>> /\ next[p \o r][1] = Len(p) + 1 => G[p \o r] = out[p \o r][1] \o G[r]
  <2>1. ReadsOn(Tok, out, next, G)
    BY <1>1, ReaderLaws
  <2>. QED
    BY <2>1, Zenon DEF ReadsOn
<1>4. ASSUME NEW s \in Seq(Tok), s # <<>>
      PROVE  /\ out[s][1] = IF MatchesAt(s, 1) THEN Replacement(s, 1, env) ELSE <<s[1]>>
             /\ next[s][1] = IF MatchesAt(s, 1) THEN MatchEnd(s, 1) + 1 ELSE 1 + 1
  <2>1. 1 \in 1 .. Len(s)
    BY <1>4
  <2>2. out[s] = SubstituteOut(s, env) /\ next[s] = SubstituteNext(s)
    BY <1>2, Zenon
  <2>3. SubstituteOut(s, env)[1] = IF MatchesAt(s, 1) THEN Replacement(s, 1, env) ELSE <<s[1]>>
    BY <2>1, Zenon DEF SubstituteOut
  <2>4. SubstituteNext(s)[1] = IF MatchesAt(s, 1) THEN MatchEnd(s, 1) + 1 ELSE 1 + 1
    BY <2>1, Zenon DEF SubstituteNext
  <2>. QED
    BY <2>2, <2>3, <2>4, Zenon
<1>5. ASSUME NEW x \in Tok, NEW r \in Seq(Tok), ~MatchesAt(<<x>> \o r, 1)
      PROVE  Substituted(<<x>> \o r, env) = <<x>> \o Substituted(r, env)
  <2>. DEFINE p == <<x>>
              s == p \o r
  <2>1. p \in Seq(Tok) /\ s \in Seq(Tok) /\ s # <<>> /\ s[1] = x /\ Len(p) + 1 = 1 + 1
    OBVIOUS
  <2>2. ~MatchesAt(s, 1)
    BY <1>5
  <2>. HIDE DEF s
  <2>3. out[s][1] = <<x>> /\ next[s][1] = Len(p) + 1
    BY <1>4, <2>1, <2>2, Zenon
  <2>4. G[p \o r] = <<x>> \o G[r]
    BY <1>3, <2>1, <2>3, Zenon DEF s
  <2>. QED
    BY <1>2, <2>1, <2>4, Zenon DEF s
<1>6. ASSUME NEW p \in Seq(Tok), NEW r \in Seq(Tok), p \o r # <<>>, MatchesAt(p \o r, 1),
             MatchEnd(p \o r, 1) = Len(p)
      PROVE  Substituted(p \o r, env) = Replacement(p \o r, 1, env) \o Substituted(r, env)
  <2>. DEFINE s == p \o r
  <2>1. s \in Seq(Tok) /\ s # <<>> /\ MatchesAt(s, 1) /\ MatchEnd(s, 1) = Len(p)
    BY <1>6
  <2>. HIDE DEF s
  <2>2. out[s][1] = Replacement(s, 1, env) /\ next[s][1] = Len(p) + 1
    BY <1>4, <2>1, Zenon
  <2>3. G[p \o r] = Replacement(s, 1, env) \o G[r]
    BY <1>3, <2>1, <2>2, Zenon DEF s
  <2>. QED
    BY <1>2, <2>1, <2>3, Zenon DEF s
<1>. QED
  BY <1>2, <1>3, <1>5, <1>6, Zenon

\* A text without a dollar sign is left as it is.
LEMMA NothingSubstituted ==
  ASSUME NEW env, IsEnv(env)
  PROVE  \A s \in Seq(Tok \ {Dollar}) : Substituted(s, env) = s
<1>. DEFINE T == Tok \ {Dollar}
            S == {s \in Seq(T) : Substituted(s, env) = s}
<1>0. Seq(T) \subseteq Seq(Tok)
  BY SeqMonotonic
<1>1. ASSUME NEW s \in Seq(T), \A r \in Seq(T) : Len(r) < Len(s) => r \in S PROVE s \in S
  <2>1. CASE s = <<>>
    BY <2>1, SubstitutedLaws, Zenon
  <2>2. CASE s # <<>>
    <3>1. PICK x \in T, r \in Seq(T) : s = <<x>> \o r /\ Len(r) < Len(s) /\ x = s[1]
      BY <2>2, HeadAndRest
    <3>2. Substituted(r, env) = r /\ r \in Seq(Tok) /\ x \in Tok /\ s \in Seq(Tok)
      BY <1>0, <1>1, <3>1
    <3>3. ~MatchesAt(s, 1)
      <4>1. 1 \in 1 .. Len(s) /\ s[1] # Dollar
        BY <2>2, <3>1
      <4>2. ~IsMatch(s, 1)
        BY <4>1, Zenon DEF IsMatch
      <4>. QED
        BY <3>2, <4>1, <4>2, MatchesMeans
    <3>4. Substituted(s, env) = <<x>> \o Substituted(r, env)
      BY <3>1, <3>2, <3>3, SubstitutedLaws, Zenon
    <3>. QED
      BY <3>1, <3>2, <3>4, Zenon
  <2>. QED
    BY <2>1, <2>2
<1>2. Seq(T) \subseteq S
  <2>. HIDE DEF S, T
  <2>. QED
    BY <1>1, TextInduction, Zenon
<1>. QED
  BY <1>2, Zenon

\* interpolateString as functions: the escapes are masked, and unmasked at the end.
MaskedOf == [s \in Seq(Tok) |-> ReplaceEach(s, <<Dollar, Dollar>>, <<Mask>>)]
UnmaskedOf == [s \in Seq(Tok) |-> ReplaceEach(s, <<Mask>>, <<Dollar>>)]

LEMMA MaskLaws ==
  /\ ReplacesTwo(Tok, Dollar, Dollar, <<Mask>>, MaskedOf)
  /\ ReplacesOne(Tok, Mask, <<Dollar>>, UnmaskedOf)
  /\ Dollar \in Tok /\ Mask \in Tok /\ Mask # Dollar /\ Char \subseteq Tok \ {Mask}
<1>1. /\ Dollar \in Tok /\ Mask \in Tok /\ Mask # Dollar /\ Char \subseteq Tok \ {Mask}
      /\ Dollar \in Char
  BY Marks DEF Tok
<1>2. <<Mask>> \in Seq(Tok) /\ <<Dollar>> \in Seq(Tok)
  BY <1>1
<1>. QED
  BY <1>1, <1>2, ReplaceOneLaws, ReplaceTwoLaws DEF MaskedOf, UnmaskedOf

LEMMA Interpolates ==
  ASSUME NEW s \in Seq(Tok), NEW env, IsEnv(env)
  PROVE  /\ InterpolateString(s, env) = UnmaskedOf[Substituted(MaskedOf[s], env)]
         /\ InterpolateString(s, env) \in Seq(Tok)
<1>1. MaskedOf[s] \in Seq(Tok) /\ MaskedOf[s] = ReplaceEach(s, <<Dollar, Dollar>>, <<Mask>>)
  BY MaskLaws, Zenon DEF MaskedOf, ReplacesTwo
<1>2. Substituted(MaskedOf[s], env) \in Seq(Tok)
  BY <1>1, SubstitutedType
<1>3. UnmaskedOf[Substituted(MaskedOf[s], env)]
      = ReplaceEach(Substituted(MaskedOf[s], env), <<Mask>>, <<Dollar>>)
  BY <1>2, Zenon DEF UnmaskedOf
<1>4. InterpolateString(s, env) = UnmaskedOf[Substituted(MaskedOf[s], env)]
  BY <1>1, <1>3, Zenon DEF InterpolateString, Dollar
<1>5. UnmaskedOf[Substituted(MaskedOf[s], env)] \in Seq(Tok)
  BY <1>2, MaskLaws, Zenon DEF ReplacesOne
<1>. QED
  BY <1>4, <1>5

LEMMA CharTexts ==
  ASSUME NEW s \in Seq(Char)
  PROVE  s \in Seq(Tok) /\ s \in Seq(Tok \ {Mask})
<1>1. Char \subseteq Tok /\ Char \subseteq Tok \ {Mask}
  BY MaskLaws
<1>. QED
  BY <1>1, SeqMonotonic

\* A text with its dollar signs doubled is interpolated to the text itself.
LEMMA DoubledInterpolates ==
  ASSUME NEW s \in Seq(Char), NEW env, IsEnv(env)
  PROVE  Doubled(s) \in Seq(Tok) /\ InterpolateString(Doubled(s), env) = s
<1>. DEFINE A == [t \in Seq(Tok) |-> ReplaceEach(t, <<Dollar>>, <<Dollar, Dollar>>)]
            C == [t \in Seq(Tok) |-> ReplaceEach(t, <<Dollar>>, <<Mask>>)]
<1>1. /\ s \in Seq(Tok) /\ s \in Seq(Tok \ {Mask})
      /\ Dollar \in Tok /\ Mask \in Tok /\ Mask # Dollar
  BY CharTexts, MaskLaws
<1>2. /\ ReplacesOne(Tok, Dollar, <<Dollar, Dollar>>, A)
      /\ ReplacesOne(Tok, Dollar, <<Mask>>, C)
  <2>1. <<Dollar, Dollar>> \in Seq(Tok) /\ <<Mask>> \in Seq(Tok)
    BY <1>1
  <2>. QED
    BY <1>1, <2>1, ReplaceOneLaws
<1>3. Doubled(s) = A[s]
  BY <1>1, Zenon DEF Doubled, Dollar
<1>. HIDE DEF A, C
<1>4. A[s] \in Seq(Tok) /\ C[s] \in Seq(Tok \ {Dollar})
  <2>1. A[s] \in Seq(Tok)
    BY <1>1, <1>2, Zenon DEF ReplacesOne
  <2>. QED
    BY <1>1, <1>2, <2>1, MaskedHasNone
<1>5. MaskedOf[A[s]] = C[s]
  BY <1>1, <1>2, MaskLaws, DoubledIsMasked
<1>6. Substituted(C[s], env) = C[s]
  BY <1>4, NothingSubstituted
<1>7. UnmaskedOf[C[s]] = s
  BY <1>1, <1>2, MaskLaws, UnmaskedIsBack
<1>8. InterpolateString(A[s], env) = UnmaskedOf[Substituted(MaskedOf[A[s]], env)]
  BY <1>4, Interpolates
<1>. QED
  BY <1>3, <1>4, <1>5, <1>6, <1>7, <1>8, Zenon

-----------------------------------------------------------------------------
(* The reference reads a text once from the left.                          *)

ReadOut(s, env) ==
  [i \in 1 .. Len(s) |-> IF HasAt(s, i, <<Dollar, Dollar>>) THEN <<Dollar>>
                         ELSE IF MatchesAt(s, i) THEN ReadValue(s, i, env) ELSE <<s[i]>>]
ReadNext(s) ==
  [i \in 1 .. Len(s) |-> IF HasAt(s, i, <<Dollar, Dollar>>) THEN i + 2
                         ELSE IF MatchesAt(s, i) THEN MatchEnd(s, i) + 1 ELSE i + 1]

\* The turn of the reading at position i.
Reads(s, env, i, f) ==
  IF i > Len(s) THEN <<>>
  ELSE IF HasAt(s, i, <<Dollar, Dollar>>) THEN <<Dollar>> \o f[i + 2]
  ELSE IF MatchesAt(s, i) THEN ReadValue(s, i, env) \o f[MatchEnd(s, i) + 1]
  ELSE <<s[i]>> \o f[i + 1]

LEMMA ReadValueType ==
  ASSUME NEW s \in Seq(Tok), NEW i \in 1 .. Len(s), MatchesAt(s, i), NEW env, IsEnv(env)
  PROVE  ReadValue(s, i, env) \in Seq(Tok)
<1>. DEFINE value == IF IsSet(env, s[i + 2]) THEN env[s[i + 2]] ELSE <<Unset>>
            default == DefaultAt(s, i)
            undoubled == ReplaceEach(default, <<Dollar, Dollar>>, <<Dollar>>)
<1>1. Dollar \in Tok /\ Unset \in Tok
  BY Marks DEF Tok
<1>2. value \in Seq(Tok)
  <2>1. <<Unset>> \in Seq(Tok)
    BY <1>1
  <2>. QED
    BY <2>1, EnvType
<1>3. undoubled \in Seq(Tok)
  <2>1. default \in Seq(Tok)
    BY DefaultType
  <2>. HIDE DEF default
  <2>2. Replaceable(Tok, default, <<Dollar, Dollar>>, <<Dollar>>)
    BY <1>1, <2>1 DEF Replaceable
  <2>. QED
    BY <2>2, ReplaceEachType
<1>4. ReadValue(s, i, env) \in {value, undoubled}
  BY Zenon DEF ReadValue, Dollar
<1>. HIDE DEF value, undoubled
<1>. QED
  BY <1>2, <1>3, <1>4

LEMMA ReadScanOf ==
  ASSUME NEW s \in Seq(Tok), NEW env, IsEnv(env)
  PROVE  ScanOf(Tok, Len(s), Len(s) + 2, ReadOut(s, env), ReadNext(s))
<1>. DEFINE n == Len(s)
<1>1. n \in Nat /\ n + 2 \in Nat /\ Dollar \in Tok
  BY Marks DEF Tok
<1>2. ASSUME NEW i \in 1 .. n
      PROVE  /\ ReadOut(s, env)[i] \in Seq(Tok)
             /\ ReadNext(s)[i] \in 1 .. n + 2 /\ ReadNext(s)[i] > i
  <2>1. CASE HasAt(s, i, <<Dollar, Dollar>>)
    <3>1. ReadOut(s, env)[i] = <<Dollar>> /\ ReadNext(s)[i] = i + 2
      BY <2>1, Zenon DEF ReadOut, ReadNext
    <3>2. <<Dollar>> \in Seq(Tok) /\ i + 2 \in 1 .. n + 2 /\ i + 2 > i
      BY <1>1
    <3>. QED
      BY <3>1, <3>2
  <2>2. CASE ~HasAt(s, i, <<Dollar, Dollar>>) /\ MatchesAt(s, i)
    <3>1. MatchEnd(s, i) \in i + 3 .. n /\ ReadValue(s, i, env) \in Seq(Tok)
      BY <2>2, MatchesMeans, MatchEndMeans, ReadValueType
    <3>2. ReadOut(s, env)[i] = ReadValue(s, i, env) /\ ReadNext(s)[i] = MatchEnd(s, i) + 1
      BY <2>2, Zenon DEF ReadOut, ReadNext
    <3>3. MatchEnd(s, i) + 1 \in 1 .. n + 2 /\ MatchEnd(s, i) + 1 > i
      BY <1>1, <3>1
    <3>. QED
      BY <3>1, <3>2, <3>3
  <2>3. CASE ~HasAt(s, i, <<Dollar, Dollar>>) /\ ~MatchesAt(s, i)
    <3>1. ReadOut(s, env)[i] = <<s[i]>> /\ ReadNext(s)[i] = i + 1
      BY <2>3, Zenon DEF ReadOut, ReadNext
    <3>2. <<s[i]>> \in Seq(Tok) /\ i + 1 \in 1 .. n + 2 /\ i + 1 > i
      OBVIOUS
    <3>. QED
      BY <3>1, <3>2
  <2>. QED
    BY <2>1, <2>2, <2>3
<1>3. /\ ReadOut(s, env) = [i \in 1 .. n |-> ReadOut(s, env)[i]]
      /\ ReadNext(s) = [i \in 1 .. n |-> ReadNext(s)[i]]
  BY Zenon DEF ReadOut, ReadNext
<1>4. n + 1 <= n + 2
  BY <1>1
<1>. HIDE DEF n
<1>5. ReadOut(s, env) \in [1 .. n -> Seq(Tok)] /\ ReadNext(s) \in [1 .. n -> 1 .. n + 2]
  BY <1>2, <1>3
<1>6. ScanOf(Tok, n, n + 2, ReadOut(s, env), ReadNext(s))
  BY <1>1, <1>2, <1>4, <1>5 DEF ScanOf
<1>. QED
  BY <1>6 DEF n

LEMMA ReadTurn ==
  ASSUME NEW s \in Seq(Tok), NEW env, NEW i \in 1 .. Len(s) + 2, NEW f
  PROVE  Turn(Len(s), ReadOut(s, env), ReadNext(s), i, f) = Reads(s, env, i, f)
<1>1. CASE i > Len(s)
  BY <1>1 DEF Turn, Reads
<1>2. CASE ~(i > Len(s))
  <2>1. i \in 1 .. Len(s)
    BY <1>2
  <2>. DEFINE escaped == HasAt(s, i, <<Dollar, Dollar>>)
  <2>2. /\ ReadOut(s, env)[i] = IF escaped THEN <<Dollar>>
                                ELSE IF MatchesAt(s, i) THEN ReadValue(s, i, env) ELSE <<s[i]>>
        /\ ReadNext(s)[i] = IF escaped THEN i + 2
                            ELSE IF MatchesAt(s, i) THEN MatchEnd(s, i) + 1 ELSE i + 1
    BY <2>1, Zenon DEF ReadOut, ReadNext
  <2>. QED
    BY <1>2, <2>2, Zenon DEF Turn, Reads
<1>. QED
  BY <1>1, <1>2

LEMMA ReadOnceScans ==
  ASSUME NEW s \in Seq(Tok), NEW env, IsEnv(env)
  PROVE  \E f : /\ IsScan(Len(s), Len(s) + 2, ReadOut(s, env), ReadNext(s), f)
                /\ ReadOnce(s, env) = f[1]
<1>. DEFINE D == 1 .. Len(s) + 2
            Def(f) == f = [i \in D |-> Reads(s, env, i, f)]
            v == CHOOSE f : Def(f)
<1>1. PICK f \in [D -> Seq(Tok)] :
         IsScan(Len(s), Len(s) + 2, ReadOut(s, env), ReadNext(s), f)
  BY ReadScanOf, ScanExists
<1>2. Def(f)
  <2>1. \A i \in D : f[i] = Reads(s, env, i, f)
    BY <1>1, ReadTurn DEF IsScan
  <2>. HIDE DEF D
  <2>. QED
    BY <2>1
<1>3. Def(v)
  <2>. HIDE DEF Def
  <2>. QED
    BY <1>2
<1>4. ReadOnce(s, env) = v[1]
  BY DEF ReadOnce, Reads, Dollar
<1>. HIDE DEF v
<1>5. \A i \in D : v[i] = Reads(s, env, i, v)
  <2>. HIDE DEF D
  <2>. QED
    BY <1>3
<1>6. IsScan(Len(s), Len(s) + 2, ReadOut(s, env), ReadNext(s), v)
  BY <1>5, ReadTurn DEF IsScan
<1>. QED
  BY <1>4, <1>6

LEMMA ReadOnceType ==
  ASSUME NEW s \in Seq(Tok), NEW env, IsEnv(env)
  PROVE  ReadOnce(s, env) \in Seq(Tok)
<1>1. PICK f : /\ IsScan(Len(s), Len(s) + 2, ReadOut(s, env), ReadNext(s), f)
               /\ ReadOnce(s, env) = f[1]
  BY ReadOnceScans
<1>2. 1 \in 1 .. Len(s) + 2
  OBVIOUS
<1>. QED
  BY <1>1, <1>2, ReadScanOf, ScanType

LEMMA ReadOnceReads ==
  ASSUME NEW env, IsEnv(env)
  PROVE  IsReader(Tok, 2, [s \in Seq(Tok) |-> ReadOut(s, env)],
                  [s \in Seq(Tok) |-> ReadNext(s)], [s \in Seq(Tok) |-> ReadOnce(s, env)])
<1>. DEFINE out == [s \in Seq(Tok) |-> ReadOut(s, env)]
            next == [s \in Seq(Tok) |-> ReadNext(s)]
            G == [s \in Seq(Tok) |-> ReadOnce(s, env)]
            DD == <<Dollar, Dollar>>
<1>1. G \in [Seq(Tok) -> Seq(Tok)]
  BY ReadOnceType
<1>2. \A s \in Seq(Tok) : out[s] = ReadOut(s, env) /\ next[s] = ReadNext(s)
                          /\ G[s] = ReadOnce(s, env)
  OBVIOUS
<1>. HIDE DEF out, next, G
<1>3. ASSUME NEW s \in Seq(Tok)
      PROVE  /\ ScanOf(Tok, Len(s), Len(s) + 2, out[s], next[s])
             /\ \E f : IsScan(Len(s), Len(s) + 2, out[s], next[s], f) /\ G[s] = f[1]
  <2>1. ScanOf(Tok, Len(s), Len(s) + 2, out[s], next[s])
    BY <1>2, ReadScanOf
  <2>2. PICK f : /\ IsScan(Len(s), Len(s) + 2, ReadOut(s, env), ReadNext(s), f)
                 /\ ReadOnce(s, env) = f[1]
    BY ReadOnceScans
  <2>. QED
    BY <1>2, <2>1, <2>2, Zenon
<1>4. ASSUME NEW p \in Seq(Tok), NEW r \in Seq(Tok)
      PROVE  IsShifted(Len(r), Len(p), out[r], next[r], out[p \o r], next[p \o r])
  <2>. DEFINE s == p \o r
              k == Len(p)
              n == Len(r)
  <2>1. /\ s \in Seq(Tok) /\ Joins(s, p, r) /\ k \in Nat /\ n \in Nat /\ Len(s) = k + n
        /\ \A i \in 1 .. n : s[i + k] = r[i]
    BY DEF Joins
  <2>2. ASSUME NEW i \in 1 .. n PROVE HasAt(s, i + k, DD) <=> HasAt(r, i, DD)
    <3>1. Len(DD) \in Nat \ {0}
      OBVIOUS
    <3>. HIDE DEF DD
    <3>. QED
      BY <3>1, HasAtBehind
  <2>. HIDE DEF s, DD
  <2>3. ASSUME NEW i \in 1 .. n
        PROVE  out[s][i + k] = out[r][i] /\ next[s][i + k] = next[r][i] + k
    <3>. DEFINE a == i + k
    <3>1. /\ MatchesAt(s, a) <=> MatchesAt(r, i)
          /\ MatchesAt(r, i) =>
               /\ MatchEnd(s, a) = MatchEnd(r, i) + k
               /\ s[a + 2] = r[i + 2]
               /\ HasDefault(s, a) <=> HasDefault(r, i)
               /\ HasDefault(r, i) => DefaultAt(s, a) = DefaultAt(r, i)
      BY <2>1, MatchBehind
    <3>2. a \in 1 .. Len(s) /\ a + 1 = i + 1 + k /\ a + 2 = i + 2 + k /\ s[a] = r[i]
      BY <2>1
    <3>3. MatchesAt(r, i) => MatchEnd(r, i) \in Int
      BY MatchesMeans, MatchEndMeans
    <3>4. MatchesAt(r, i) => MatchEnd(r, i) + k + 1 = MatchEnd(r, i) + 1 + k
      BY <2>1, <3>3
    <3>5. HasAt(s, a, DD) <=> HasAt(r, i, DD)
      BY <2>2
    <3>. HIDE DEF a
    <3>6. /\ ReadOut(s, env)[a] = IF HasAt(s, a, DD) THEN <<Dollar>>
                 ELSE IF MatchesAt(s, a) THEN ReadValue(s, a, env) ELSE <<s[a]>>
          /\ ReadNext(s)[a] = IF HasAt(s, a, DD) THEN a + 2
                 ELSE IF MatchesAt(s, a) THEN MatchEnd(s, a) + 1 ELSE a + 1
      BY <3>2, Zenon DEF ReadOut, ReadNext, DD
    <3>7. /\ ReadOut(r, env)[i] = IF HasAt(r, i, DD) THEN <<Dollar>>
                 ELSE IF MatchesAt(r, i) THEN ReadValue(r, i, env) ELSE <<r[i]>>
          /\ ReadNext(r)[i] = IF HasAt(r, i, DD) THEN i + 2
                 ELSE IF MatchesAt(r, i) THEN MatchEnd(r, i) + 1 ELSE i + 1
      BY Zenon DEF ReadOut, ReadNext, DD
    <3>8. MatchesAt(r, i) => ReadValue(s, a, env) = ReadValue(r, i, env)
      BY <3>1, ReadValueBehind
    <3>9. /\ ReadOut(s, env)[a] = ReadOut(r, env)[i]
          /\ ReadNext(s)[a] = ReadNext(r)[i] + k
      <4>. HIDE DEF k, n
      <4>. QED
        BY <3>1, <3>2, <3>4, <3>5, <3>6, <3>7, <3>8, Zenon
    <3>10. out[s][a] = out[r][i] /\ next[s][a] = next[r][i] + k
      BY <1>2, <2>1, <3>9, Zenon
    <3>. QED
      BY <3>10 DEF a
  <2>4. IsShifted(n, k, out[r], next[r], out[s], next[s])
    <3>. HIDE DEF n, k
    <3>. QED
      BY <2>3, Zenon DEF IsShifted
  <2>. QED
    BY <2>4 DEF s
<1>5. IsReader(Tok, 2, out, next, G)
  <2>1. 2 \in Nat \ {0}
    OBVIOUS
  <2>. QED
    BY <1>1, <1>3, <1>4, <2>1, Zenon DEF IsReader
<1>. QED
  BY <1>5 DEF out, next, G

\* What one reading does with an escape, a match and any other token.
ReadsText(env) ==
  /\ ReadOnce(<<>>, env) = <<>>
  /\ \A p, r \in Seq(Tok) :
        p \o r # <<>> /\ HasAt(p \o r, 1, <<Dollar, Dollar>>) /\ Len(p) = 2
        => ReadOnce(p \o r, env) = <<Dollar>> \o ReadOnce(r, env)
  /\ \A p, r \in Seq(Tok) :
        /\ p \o r # <<>> /\ ~HasAt(p \o r, 1, <<Dollar, Dollar>>)
        /\ MatchesAt(p \o r, 1) /\ MatchEnd(p \o r, 1) = Len(p)
        => ReadOnce(p \o r, env) = ReadValue(p \o r, 1, env) \o ReadOnce(r, env)
  /\ \A x \in Tok, r \in Seq(Tok) :
        ~HasAt(<<x>> \o r, 1, <<Dollar, Dollar>>) /\ ~MatchesAt(<<x>> \o r, 1)
        => ReadOnce(<<x>> \o r, env) = <<x>> \o ReadOnce(r, env)

LEMMA ReadOnceLaws ==
  ASSUME NEW env, IsEnv(env)
  PROVE  ReadsText(env)
<1>. DEFINE out == [s \in Seq(Tok) |-> ReadOut(s, env)]
            next == [s \in Seq(Tok) |-> ReadNext(s)]
            G == [s \in Seq(Tok) |-> ReadOnce(s, env)]
            DD == <<Dollar, Dollar>>
<1>1. IsReader(Tok, 2, out, next, G)
  BY ReadOnceReads
<1>2. /\ \A s \in Seq(Tok) : out[s] = ReadOut(s, env) /\ next[s] = ReadNext(s)
                             /\ G[s] = ReadOnce(s, env)
      /\ <<>> \in Seq(Tok)
  OBVIOUS
<1>. HIDE DEF out, next, G
<1>3. /\ G[<<>>] = <<>>
      /\ \A p, r \in Seq(Tok) :
            p \o r # <<>> /\ next[p \o r][1] = Len(p) + 1 => G[p \o r] = out[p \o r][1] \o G[r]
  <2>1. ReadsOn(Tok, out, next, G)
    BY <1>1, ReaderLaws
  <2>. QED
    BY <2>1, Zenon DEF ReadsOn
<1>4. ASSUME NEW s \in Seq(Tok), s # <<>>
      PROVE  /\ out[s][1] = IF HasAt(s, 1, DD) THEN <<Dollar>>
                            ELSE IF MatchesAt(s, 1) THEN ReadValue(s, 1, env) ELSE <<s[1]>>
             /\ next[s][1] = IF HasAt(s, 1, DD) THEN 1 + 2
                             ELSE IF MatchesAt(s, 1) THEN MatchEnd(s, 1) + 1 ELSE 1 + 1
  <2>1. 1 \in 1 .. Len(s)
    BY <1>4
  <2>2. out[s] = ReadOut(s, env) /\ next[s] = ReadNext(s)
    BY <1>2, Zenon
  <2>3. ReadOut(s, env)[1] = IF HasAt(s, 1, DD) THEN <<Dollar>>
                             ELSE IF MatchesAt(s, 1) THEN ReadValue(s, 1, env) ELSE <<s[1]>>
    BY <2>1, Zenon DEF ReadOut
  <2>4. ReadNext(s)[1] = IF HasAt(s, 1, DD) THEN 1 + 2
                         ELSE IF MatchesAt(s, 1) THEN MatchEnd(s, 1) + 1 ELSE 1 + 1
    BY <2>1, Zenon DEF ReadNext
  <2>. QED
    BY <2>2, <2>3, <2>4, Zenon
<1>5. ASSUME NEW p \in Seq(Tok), NEW r \in Seq(Tok), p \o r # <<>>,
             HasAt(p \o r, 1, DD), Len(p) = 2
      PROVE  ReadOnce(p \o r, env) = <<Dollar>> \o ReadOnce(r, env)
  <2>. DEFINE s == p \o r
  <2>1. s \in Seq(Tok) /\ s # <<>> /\ HasAt(s, 1, DD) /\ 1 + 2 = Len(p) + 1
    BY <1>5
  <2>. HIDE DEF s, DD
  <2>2. out[s][1] = <<Dollar>> /\ next[s][1] = Len(p) + 1
    BY <1>4, <2>1, Zenon
  <2>3. G[p \o r] = <<Dollar>> \o G[r]
    BY <1>3, <2>1, <2>2, Zenon DEF s
  <2>. QED
    BY <1>2, <2>1, <2>3, Zenon DEF s
<1>6. ASSUME NEW p \in Seq(Tok), NEW r \in Seq(Tok), p \o r # <<>>, ~HasAt(p \o r, 1, DD),
             MatchesAt(p \o r, 1), MatchEnd(p \o r, 1) = Len(p)
      PROVE  ReadOnce(p \o r, env) = ReadValue(p \o r, 1, env) \o ReadOnce(r, env)
  <2>. DEFINE s == p \o r
  <2>1. /\ s \in Seq(Tok) /\ s # <<>> /\ ~HasAt(s, 1, DD) /\ MatchesAt(s, 1)
        /\ MatchEnd(s, 1) = Len(p)
    BY <1>6
  <2>. HIDE DEF s, DD
  <2>2. out[s][1] = ReadValue(s, 1, env) /\ next[s][1] = Len(p) + 1
    BY <1>4, <2>1, Zenon
  <2>3. G[p \o r] = ReadValue(s, 1, env) \o G[r]
    BY <1>3, <2>1, <2>2, Zenon DEF s
  <2>. QED
    BY <1>2, <2>1, <2>3, Zenon DEF s
<1>7. ASSUME NEW x \in Tok, NEW r \in Seq(Tok), ~HasAt(<<x>> \o r, 1, DD),
             ~MatchesAt(<<x>> \o r, 1)
      PROVE  ReadOnce(<<x>> \o r, env) = <<x>> \o ReadOnce(r, env)
  <2>. DEFINE p == <<x>>
              s == p \o r
  <2>1. p \in Seq(Tok) /\ s \in Seq(Tok) /\ s # <<>> /\ s[1] = x /\ Len(p) + 1 = 1 + 1
    OBVIOUS
  <2>2. ~HasAt(s, 1, DD) /\ ~MatchesAt(s, 1)
    BY <1>7
  <2>. HIDE DEF s, DD
  <2>3. out[s][1] = <<x>> /\ next[s][1] = Len(p) + 1
    BY <1>4, <2>1, <2>2, Zenon
  <2>4. G[p \o r] = <<x>> \o G[r]
    BY <1>3, <2>1, <2>3, Zenon DEF s
  <2>. QED
    BY <1>2, <2>1, <2>4, Zenon DEF s
<1>8. ReadOnce(<<>>, env) = <<>>
  BY <1>2, <1>3, Zenon
<1>. QED
  BY <1>5, <1>6, <1>7, <1>8, Zenon DEF ReadsText

-----------------------------------------------------------------------------
(* What masking keeps.                                                     *)

Texts(T, a, b, c) == a \in Seq(T) /\ b \in Seq(T) /\ c \in Seq(T)

LEMMA Regroup ==
  ASSUME NEW T, NEW a, NEW b, NEW c, Texts(T, a, b, c)
  PROVE  a \o (b \o c) = (a \o b) \o c
<1>1. a \in Seq(T) /\ b \in Seq(T) /\ c \in Seq(T)
  BY DEF Texts
<1>. QED
  BY <1>1, ConcatAssociative

\* The same as one predicate, for the places with many texts about.
Regrouped(a, b, c) == a \o (b \o c) = (a \o b) \o c

LEMMA RegroupTexts ==
  ASSUME NEW T, NEW a, NEW b, NEW c, Texts(T, a, b, c)
  PROVE  Regrouped(a, b, c)
BY Regroup DEF Regrouped

LEMMA ConsLaws ==
  ASSUME NEW T, NEW x \in T, NEW r \in Seq(T)
  PROVE  /\ Cons(x, r) \in Seq(T) /\ Cons(x, r) # <<>>
         /\ Len(Cons(x, r)) = Len(r) + 1
         /\ Cons(x, r)[1] = x
         /\ \A j \in 1 .. Len(r) : Cons(x, r)[j + 1] = r[j]
BY DEF Cons

\* A text that is put before another, token by token.
LEMMA ConsJoins ==
  ASSUME NEW T, NEW x \in T, NEW s \in Seq(T), NEW p \in Seq(T), NEW r \in Seq(T), Joins(s, p, r)
  PROVE  Joins(Cons(x, s), Cons(x, p), r)
<1>1. <<x>> \in Seq(T)
  OBVIOUS
<1>2. <<x>> \o (p \o r) = (<<x>> \o p) \o r
  BY <1>1, ConcatAssociative
<1>. QED
  BY <1>2, Zenon DEF Joins, Cons

\* Where a text begins with the pair, and where it does not.
PairFirst(T, d, m, B, s, r) == s = <<d, d>> \o r /\ B[s] = <<m>> \o B[r]
OtherFirst(T, d, B, s, x, r) ==
  s = Cons(x, r) /\ B[s] = Cons(x, B[r]) /\ (x = d /\ r # <<>> => r[1] # d)

LEMMA PairOrOther ==
  ASSUME NEW T, NEW d \in T, NEW m \in T, NEW B, ReplacesTwo(T, d, d, <<m>>, B),
         NEW s \in Seq(T), s # <<>>
  PROVE  \/ \E r \in Seq(T) : PairFirst(T, d, m, B, s, r) /\ Len(r) < Len(s)
         \/ \E x \in T, r \in Seq(T) : OtherFirst(T, d, B, s, x, r) /\ Len(r) < Len(s)
<1>1. PICK x \in T, r \in Seq(T) : s = <<x>> \o r /\ Len(r) < Len(s)
  BY HeadAndRest
<1>2. CASE x = d /\ r # <<>> /\ r[1] = d
  <2>1. PICK y \in T, q \in Seq(T) : r = <<y>> \o q /\ Len(q) < Len(r) /\ y = r[1]
    BY <1>2, HeadAndRest
  <2>2. s = <<d, d>> \o q
    BY <1>1, <1>2, <2>1
  <2>3. B[s] = <<m>> \o B[q]
    BY <2>2, Zenon DEF ReplacesTwo
  <2>4. Len(q) < Len(s)
    BY <1>1, <2>1
  <2>5. PairFirst(T, d, m, B, s, q)
    BY <2>2, <2>3, Zenon DEF PairFirst
  <2>. QED
    BY <2>4, <2>5
<1>3. CASE x = d /\ r # <<>> => r[1] # d
  <2>1. B[s] = <<x>> \o B[r]
    BY <1>1, <1>3, Zenon DEF ReplacesTwo
  <2>2. OtherFirst(T, d, B, s, x, r)
    BY <1>1, <1>3, <2>1, Zenon DEF OtherFirst, Cons
  <2>. QED
    BY <1>1, <2>2
<1>. QED
  BY <1>2, <1>3

\* What stands before b is replaced apart from it, and b becomes c.
PartsBefore(T, F, b, c) == \A a \in Seq(T) : F[a \o b] = F[a] \o c

\* A token that is not masked parts a text in two that are masked apart.
LEMMA MaskedApart ==
  ASSUME NEW T, NEW d \in T, NEW m \in T, NEW B, ReplacesTwo(T, d, d, <<m>>, B),
         NEW x \in T, x # d, NEW r \in Seq(T)
  PROVE  PartsBefore(T, B, Cons(x, r), Cons(x, B[r]))
<1>. DEFINE t == Cons(x, r)
            u == Cons(x, B[r])
            S == {a \in Seq(T) : B[a \o t] = B[a] \o u}
<1>0. /\ B[r] \in Seq(T) /\ t \in Seq(T) /\ u \in Seq(T) /\ t[1] = x /\ B[t] = u
      /\ t # <<>>
  <2>1. B[r] \in Seq(T)
    BY Zenon DEF ReplacesTwo
  <2>2. B[t] = u
    BY Zenon DEF ReplacesTwo, Cons
  <2>3. t \in Seq(T) /\ t[1] = x /\ t # <<>>
    BY ConsLaws
  <2>4. u \in Seq(T)
    <3>. DEFINE v == B[r]
    <3>1. v \in Seq(T)
      BY <2>1
    <3>. HIDE DEF v
    <3>2. Cons(x, v) \in Seq(T)
      BY <3>1, ConsLaws
    <3>. QED
      BY <3>2 DEF v
  <2>. HIDE DEF t, u
  <2>. QED
    BY <2>1, <2>2, <2>3, <2>4
<1>. HIDE DEF t, u
<1>1. ASSUME NEW s \in Seq(T), \A q \in Seq(T) : Len(q) < Len(s) => q \in S PROVE s \in S
  <2>1. CASE s = <<>>
    <3>1. <<>> \o t = t /\ <<>> \o u = u
      BY <1>0
    <3>2. B[<<>>] = <<>>
      BY Zenon DEF ReplacesTwo
    <3>. QED
      BY <1>0, <2>1, <3>1, <3>2, Zenon
  <2>2. ASSUME NEW q \in Seq(T), PairFirst(T, d, m, B, s, q), Len(q) < Len(s)
        PROVE  s \in S
    <3>1. B[q \o t] = B[q] \o u /\ B[q] \in Seq(T) /\ q \o t \in Seq(T)
      <4>1. B[q] \in Seq(T)
        BY Zenon DEF ReplacesTwo
      <4>. QED
        BY <1>0, <1>1, <2>2, <4>1
    <3>2. s = <<d, d>> \o q /\ B[s] = <<m>> \o B[q]
      BY <2>2, Zenon DEF PairFirst
    <3>3. s \o t = <<d, d>> \o (q \o t)
      <4>1. <<d, d>> \in Seq(T)
        OBVIOUS
      <4>. DEFINE dd == <<d, d>>
      <4>2. Texts(T, dd, q, t)
        BY <1>0, <4>1 DEF Texts
      <4>. HIDE DEF dd
      <4>3. dd \o (q \o t) = (dd \o q) \o t
        BY <4>2, Regroup
      <4>. QED
        BY <3>2, <4>3, Zenon DEF dd
    <3>4. B[s \o t] = <<m>> \o B[q \o t]
      BY <3>1, <3>3, Zenon DEF ReplacesTwo
    <3>5. <<m>> \o (B[q] \o u) = (<<m>> \o B[q]) \o u
      <4>. DEFINE v == B[q]
                  w == <<m>>
      <4>1. w \in Seq(T) /\ v \in Seq(T)
        BY <3>1
      <4>. HIDE DEF v, w, S
      <4>2. Texts(T, w, v, u)
        BY <1>0, <4>1 DEF Texts
      <4>3. w \o (v \o u) = (w \o v) \o u
        BY <4>2, Regroup
      <4>. QED
        BY <4>3 DEF v, w
    <3>. QED
      BY <3>1, <3>2, <3>4, <3>5, Zenon
  <2>3. ASSUME NEW y \in T, NEW q \in Seq(T), OtherFirst(T, d, B, s, y, q), Len(q) < Len(s)
        PROVE  s \in S
    <3>1. B[q \o t] = B[q] \o u /\ B[q] \in Seq(T) /\ q \o t \in Seq(T)
      <4>1. B[q] \in Seq(T)
        BY Zenon DEF ReplacesTwo
      <4>. QED
        BY <1>0, <1>1, <2>3, <4>1
    <3>2. s = <<y>> \o q /\ B[s] = <<y>> \o B[q] /\ (y = d /\ q # <<>> => q[1] # d)
      BY <2>3, Zenon DEF OtherFirst, Cons
    <3>3. s \o t = <<y>> \o (q \o t)
      <4>1. <<y>> \in Seq(T)
        OBVIOUS
      <4>. QED
        BY <1>0, <3>2, <4>1, ConcatAssociative
    <3>4. y = d => (q \o t)[1] # d
      <4>1. CASE q = <<>>
        <5>1. q \o t = t
          BY <1>0, <4>1
        <5>. QED
          BY <1>0, <5>1
      <4>2. CASE q # <<>>
        <5>1. (q \o t)[1] = q[1]
          BY <1>0, <4>2
        <5>. QED
          BY <3>2, <4>2, <5>1
      <4>. QED
        BY <4>1, <4>2
    <3>5. B[s \o t] = <<y>> \o B[q \o t]
      BY <3>1, <3>3, <3>4, Zenon DEF ReplacesTwo
    <3>6. <<y>> \o (B[q] \o u) = (<<y>> \o B[q]) \o u
      <4>. DEFINE v == B[q]
                  w == <<y>>
      <4>1. w \in Seq(T) /\ v \in Seq(T)
        BY <3>1
      <4>. HIDE DEF v, w, S
      <4>2. Texts(T, w, v, u)
        BY <1>0, <4>1 DEF Texts
      <4>3. w \o (v \o u) = (w \o v) \o u
        BY <4>2, Regroup
      <4>. QED
        BY <4>3 DEF v, w
    <3>. QED
      BY <3>1, <3>2, <3>5, <3>6, Zenon
  <2>. QED
    BY <2>1, <2>2, <2>3, PairOrOther
<1>2. Seq(T) \subseteq S
  <2>. HIDE DEF S
  <2>. QED
    BY <1>1, TextInduction, Zenon
<1>. QED
  BY <1>2, Zenon DEF t, u, PartsBefore

IsCons(c, x, r) == c = Cons(x, r)

LEMMA ConsParts ==
  ASSUME NEW T, NEW x \in T, NEW r \in Seq(T), NEW c, IsCons(c, x, r)
  PROVE  c[1] = x /\ Len(c) = Len(r) + 1 /\ \A j \in 1 .. Len(r) : c[j + 1] = r[j]
<1>1. c = Cons(x, r)
  BY DEF IsCons
<1>2. /\ Cons(x, r)[1] = x /\ Len(Cons(x, r)) = Len(r) + 1
      /\ \A j \in 1 .. Len(r) : Cons(x, r)[j + 1] = r[j]
  BY ConsLaws
<1>. QED
  BY <1>1, <1>2, Zenon

LEMMA ConsSplits ==
  ASSUME NEW T, NEW x \in T, NEW y \in T, NEW r \in Seq(T), NEW q \in Seq(T),
         NEW c, IsCons(c, x, r), IsCons(c, y, q)
  PROVE  x = y /\ r = q
<1>1. x = y
  BY ConsParts
<1>2. Len(r) = Len(q) /\ \A j \in 1 .. Len(r) : r[j] = q[j]
  <2>1. Len(c) = Len(r) + 1 /\ \A j \in 1 .. Len(r) : c[j + 1] = r[j]
    BY ConsParts
  <2>2. Len(c) = Len(q) + 1 /\ \A j \in 1 .. Len(q) : c[j + 1] = q[j]
    BY ConsParts
  <2>3. Len(r) \in Nat /\ Len(q) \in Nat
    OBVIOUS
  <2>. QED
    BY <2>1, <2>2, <2>3
<1>3. r = q
  BY <1>2, SeqEqual
<1>. QED
  BY <1>1, <1>3

\* A token of a masked text that is not the mask was there before.
LEMMA MaskedHead ==
  ASSUME NEW T, NEW d \in T, NEW m \in T, NEW B, ReplacesTwo(T, d, d, <<m>>, B),
         NEW s \in Seq(T), NEW x \in T, x # m, NEW w \in Seq(T), B[s] = Cons(x, w)
  PROVE  \E r \in Seq(T) : s = Cons(x, r) /\ w = B[r]
<1>1. s # <<>>
  <2>1. Cons(x, w) # <<>>
    BY ConsLaws
  <2>. QED
    BY <2>1, Zenon DEF ReplacesTwo
<1>2. ASSUME NEW r \in Seq(T), PairFirst(T, d, m, B, s, r) PROVE FALSE
  <2>. DEFINE v == B[r]
  <2>1. v \in Seq(T)
    BY Zenon DEF ReplacesTwo
  <2>2. B[s] = Cons(m, v)
    BY <1>2, Zenon DEF PairFirst, Cons
  <2>. HIDE DEF v
  <2>3. IsCons(B[s], x, w) /\ IsCons(B[s], m, v)
    BY <2>2 DEF IsCons
  <2>. QED
    BY <2>1, <2>3, ConsSplits
<1>3. ASSUME NEW y \in T, NEW r \in Seq(T), OtherFirst(T, d, B, s, y, r)
      PROVE  s = Cons(x, r) /\ w = B[r]
  <2>. DEFINE v == B[r]
  <2>1. v \in Seq(T)
    BY Zenon DEF ReplacesTwo
  <2>2. s = Cons(y, r) /\ B[s] = Cons(y, v)
    BY <1>3, Zenon DEF OtherFirst
  <2>. HIDE DEF v
  <2>3. IsCons(B[s], x, w) /\ IsCons(B[s], y, v)
    BY <2>2 DEF IsCons
  <2>4. x = y /\ w = v
    BY <2>1, <2>3, ConsSplits
  <2>. QED
    BY <2>2, <2>4 DEF v
<1>. QED
  BY <1>1, <1>2, <1>3, PairOrOther

\* No other token comes with the mask.
LEMMA MaskedAddsNone ==
  ASSUME NEW T, NEW d \in T, NEW m \in T, NEW B, ReplacesTwo(T, d, d, <<m>>, B),
         NEW x \in T, x # m, x # d
  PROVE  \A s \in Seq(T \ {x}) : B[s] \in Seq(T \ {x})
<1>. DEFINE T1 == T \ {x}
            S == {s \in Seq(T1) : B[s] \in Seq(T1)}
<1>0. Seq(T1) \subseteq Seq(T) /\ m \in T1 /\ d \in T1
  <2>1. T1 \subseteq T
    OBVIOUS
  <2>2. Seq(T1) \subseteq Seq(T)
    BY <2>1, SeqMonotonic
  <2>. QED
    BY <2>2
<1>1. ASSUME NEW s \in Seq(T1), \A r \in Seq(T1) : Len(r) < Len(s) => r \in S PROVE s \in S
  <2>1. CASE s = <<>>
    <3>1. B[s] = <<>>
      BY <2>1, Zenon DEF ReplacesTwo
    <3>. QED
      BY <3>1, EmptySeq
  <2>2. CASE s # <<>>
    <3>1. PICK y \in T1, r \in Seq(T1) : s = <<y>> \o r /\ Len(r) < Len(s)
      BY <2>2, HeadAndRest
    <3>2. CASE y = d /\ r # <<>> /\ r[1] = d
      <4>1. PICK z \in T1, q \in Seq(T1) : r = <<z>> \o q /\ Len(q) < Len(r) /\ z = r[1]
        BY <3>2, HeadAndRest
      <4>2. s = <<d, d>> \o q /\ q \in Seq(T)
        BY <1>0, <3>1, <3>2, <4>1
      <4>3. B[s] = <<m>> \o B[q]
        BY <4>2, Zenon DEF ReplacesTwo
      <4>4. Len(q) < Len(s)
        BY <3>1, <4>1
      <4>5. B[q] \in Seq(T1) /\ <<m>> \in Seq(T1)
        BY <1>0, <1>1, <4>4
      <4>6. B[s] \in Seq(T1)
        BY <4>3, <4>5, ConcatProperties
      <4>. QED
        BY <4>6
    <3>3. CASE y = d /\ r # <<>> => r[1] # d
      <4>1. y \in T /\ r \in Seq(T)
        BY <1>0
      <4>2. B[s] = <<y>> \o B[r]
        BY <3>1, <3>3, <4>1, Zenon DEF ReplacesTwo
      <4>3. B[r] \in Seq(T1) /\ <<y>> \in Seq(T1)
        BY <1>1, <3>1
      <4>4. B[s] \in Seq(T1)
        BY <4>2, <4>3, ConcatProperties
      <4>. QED
        BY <4>4
    <3>. QED
      BY <3>2, <3>3
  <2>. QED
    BY <2>1, <2>2
<1>2. Seq(T1) \subseteq S
  <2>. HIDE DEF S, T1
  <2>. QED
    BY <1>1, TextInduction, Zenon
<1>. QED
  BY <1>2, Zenon

\* Token by token, what stands apart is replaced apart.
LEMMA UnmaskedApart ==
  ASSUME NEW T, NEW m \in T, NEW new \in Seq(T), NEW U, ReplacesOne(T, m, new, U),
         NEW b \in Seq(T)
  PROVE  PartsBefore(T, U, b, U[b])
<1>. DEFINE S == {a \in Seq(T) : U[a \o b] = U[a] \o U[b]}
            u == U[b]
<1>0. u \in Seq(T)
  BY Zenon DEF ReplacesOne
<1>. HIDE DEF u
<1>1. ASSUME NEW s \in Seq(T), \A q \in Seq(T) : Len(q) < Len(s) => q \in S PROVE s \in S
  <2>1. CASE s = <<>>
    <3>1. <<>> \o b = b /\ <<>> \o u = u
      BY <1>0
    <3>2. U[<<>>] = <<>>
      BY Zenon DEF ReplacesOne
    <3>. QED
      BY <2>1, <3>1, <3>2, Zenon DEF u
  <2>2. CASE s # <<>>
    <3>1. PICK x \in T, q \in Seq(T) : s = <<x>> \o q /\ Len(q) < Len(s)
      BY <2>2, HeadAndRest
    <3>. DEFINE v == U[q]
                p == IF x = m THEN new ELSE <<x>>
                w == <<x>>
    <3>2. v \in Seq(T) /\ p \in Seq(T) /\ w \in Seq(T) /\ q \o b \in Seq(T)
      <4>1. v \in Seq(T)
        BY Zenon DEF ReplacesOne
      <4>. QED
        BY <4>1
    <3>3. U[q \o b] = v \o u
      BY <1>1, <3>1, Zenon DEF u
    <3>4. \A r \in Seq(T) : U[<<x>> \o r] = p \o U[r]
      BY Zenon DEF ReplacesOne
    <3>. HIDE DEF v, p, w, S
    <3>5. Texts(T, w, q, b) /\ Texts(T, p, v, u)
      BY <1>0, <3>2 DEF Texts
    <3>6. s \o b = <<x>> \o (q \o b) /\ p \o (v \o u) = (p \o v) \o u
      <4>1. Regrouped(w, q, b) /\ Regrouped(p, v, u)
        BY <3>5, RegroupTexts
      <4>. QED
        BY <3>1, <4>1, Zenon DEF Regrouped, w
    <3>7. U[s] = p \o v
      BY <3>1, <3>4, Zenon DEF v
    <3>8. U[s \o b] = p \o (v \o u)
      BY <3>2, <3>3, <3>4, <3>6, Zenon
    <3>. QED
      BY <3>6, <3>7, <3>8, Zenon DEF S, u
  <2>. QED
    BY <2>1, <2>2
<1>2. Seq(T) \subseteq S
  <2>. HIDE DEF S
  <2>. QED
    BY <1>1, TextInduction, Zenon
<1>. QED
  BY <1>2, Zenon DEF PartsBefore, u

\* A text without the mask is left as it is when it is unmasked.
LEMMA UnmaskedKeeps ==
  ASSUME NEW T, NEW m \in T, NEW new, NEW U, ReplacesOne(T, m, new, U)
  PROVE  \A s \in Seq(T \ {m}) : U[s] = s
<1>. DEFINE S == {s \in Seq(T \ {m}) : U[s] = s}
<1>0. Seq(T \ {m}) \subseteq Seq(T)
  BY SeqMonotonic
<1>1. ASSUME NEW s \in Seq(T \ {m}), \A r \in Seq(T \ {m}) : Len(r) < Len(s) => r \in S
      PROVE  s \in S
  <2>1. CASE s = <<>>
    BY <2>1, Zenon DEF ReplacesOne
  <2>2. CASE s # <<>>
    <3>1. PICK x \in T \ {m}, r \in Seq(T \ {m}) : s = <<x>> \o r /\ Len(r) < Len(s)
      BY <2>2, HeadAndRest
    <3>2. U[r] = r /\ r \in Seq(T)
      BY <1>0, <1>1, <3>1
    <3>3. U[<<x>> \o r] = <<x>> \o U[r]
      BY <3>2, Zenon DEF ReplacesOne
    <3>. QED
      BY <3>1, <3>2, <3>3, Zenon
  <2>. QED
    BY <2>1, <2>2
<1>2. Seq(T \ {m}) \subseteq S
  <2>. HIDE DEF S
  <2>. QED
    BY <1>1, TextInduction, Zenon
<1>. QED
  BY <1>2, Zenon

\* To mask and unmask a text is to undo its escapes.
LEMMA MaskedUndoes ==
  ASSUME NEW T, NEW d \in T, NEW m \in T, m # d,
         NEW B, ReplacesTwo(T, d, d, <<m>>, B), NEW U, ReplacesOne(T, m, <<d>>, U),
         NEW D, ReplacesTwo(T, d, d, <<d>>, D)
  PROVE  \A s \in Seq(T \ {m}) : U[B[s]] = D[s]
<1>. DEFINE T1 == T \ {m}
            S == {s \in Seq(T1) : U[B[s]] = D[s]}
<1>0. Seq(T1) \subseteq Seq(T) /\ d \in T1
  <2>1. T1 \subseteq T
    OBVIOUS
  <2>2. Seq(T1) \subseteq Seq(T)
    BY <2>1, SeqMonotonic
  <2>. QED
    BY <2>2
<1>1. ASSUME NEW s \in Seq(T1), \A r \in Seq(T1) : Len(r) < Len(s) => r \in S PROVE s \in S
  <2>1. CASE s = <<>>
    BY <2>1, Zenon DEF ReplacesOne, ReplacesTwo
  <2>2. CASE s # <<>>
    <3>1. PICK y \in T1, r \in Seq(T1) : s = <<y>> \o r /\ Len(r) < Len(s)
      BY <2>2, HeadAndRest
    <3>2. CASE y = d /\ r # <<>> /\ r[1] = d
      <4>1. PICK z \in T1, q \in Seq(T1) : r = <<z>> \o q /\ Len(q) < Len(r) /\ z = r[1]
        BY <3>2, HeadAndRest
      <4>2. s = <<d, d>> \o q /\ q \in Seq(T)
        BY <1>0, <3>1, <3>2, <4>1
      <4>3. B[s] = <<m>> \o B[q] /\ D[s] = <<d>> \o D[q] /\ B[q] \in Seq(T)
        BY <4>2, Zenon DEF ReplacesTwo
      <4>4. Len(q) < Len(s)
        BY <3>1, <4>1
      <4>5. U[B[q]] = D[q]
        BY <1>1, <4>4
      <4>6. U[<<m>> \o B[q]] = <<d>> \o U[B[q]]
        BY <4>3, Zenon DEF ReplacesOne
      <4>. QED
        BY <4>3, <4>5, <4>6, Zenon
    <3>3. CASE y = d /\ r # <<>> => r[1] # d
      <4>1. y \in T /\ r \in Seq(T) /\ y \in T \ {m}
        BY <1>0
      <4>2. B[s] = <<y>> \o B[r] /\ D[s] = <<y>> \o D[r] /\ B[r] \in Seq(T)
        BY <3>1, <3>3, <4>1, Zenon DEF ReplacesTwo
      <4>3. U[B[r]] = D[r]
        BY <1>1, <3>1
      <4>4. U[<<y>> \o B[r]] = <<y>> \o U[B[r]]
        BY <4>1, <4>2, Zenon DEF ReplacesOne
      <4>. QED
        BY <4>2, <4>3, <4>4, Zenon
    <3>. QED
      BY <3>2, <3>3
  <2>. QED
    BY <2>1, <2>2
<1>2. Seq(T1) \subseteq S
  <2>. HIDE DEF S, T1
  <2>. QED
    BY <1>1, TextInduction, Zenon
<1>. QED
  BY <1>2, Zenon

\* A text with a token in it is cut at the first one.
LEMMA CutAtToken ==
  ASSUME NEW T, NEW x
  PROVE  \A s \in Seq(T) :
            s \notin Seq(T \ {x})
            => \E a \in Seq(T \ {x}), r \in Seq(T) : s = a \o Cons(x, r)
<1>. DEFINE Parted(s) == \E a \in Seq(T \ {x}), r \in Seq(T) : s = a \o Cons(x, r)
            S == {s \in Seq(T) : s \notin Seq(T \ {x}) => Parted(s)}
<1>1. ASSUME NEW s \in Seq(T), \A q \in Seq(T) : Len(q) < Len(s) => q \in S PROVE s \in S
  <2>1. CASE s = <<>>
    BY <2>1, EmptySeq
  <2>2. CASE s # <<>> /\ s \notin Seq(T \ {x})
    <3>1. PICK y \in T, q \in Seq(T) : s = <<y>> \o q /\ Len(q) < Len(s)
      BY <2>2, HeadAndRest
    <3>2. CASE y = x
      <4>1. s = <<>> \o Cons(x, q)
        <5>1. Cons(x, q) \in Seq(T) /\ s = Cons(x, q)
          BY <3>1, <3>2, ConsLaws DEF Cons
        <5>. QED
          BY <5>1
      <4>2. <<>> \in Seq(T \ {x})
        BY EmptySeq
      <4>3. Parted(s)
        BY <4>1, <4>2
      <4>. QED
        BY <4>3
    <3>3. CASE y # x
      <4>1. <<y>> \in Seq(T \ {x}) /\ <<y>> \in Seq(T)
        BY <3>3
      <4>2. q \notin Seq(T \ {x})
        BY <2>2, <3>1, <4>1, ConcatProperties
      <4>3. PICK a \in Seq(T \ {x}), r \in Seq(T) : q = a \o Cons(x, r)
        BY <1>1, <3>1, <4>2
      <4>. DEFINE b == <<y>> \o a
                  w == <<y>>
                  c == Cons(x, r)
      <4>4. b \in Seq(T \ {x})
        BY <4>1, ConcatProperties
      <4>5. s = b \o c
        <5>0. x \in T
          <6>1. CASE x \in T
            BY <6>1
          <6>2. CASE x \notin T
            <7>1. T \ {x} = T
              BY <6>2
            <7>. QED
              BY <2>2, <7>1
          <6>. QED
            BY <6>1, <6>2
        <5>1. a \in Seq(T) /\ c \in Seq(T)
          <6>1. Seq(T \ {x}) \subseteq Seq(T)
            BY SeqMonotonic
          <6>2. c \in Seq(T)
            BY <5>0, ConsLaws
          <6>. QED
            BY <6>1, <6>2
        <5>. HIDE DEF w, c
        <5>2. Texts(T, w, a, c)
          BY <4>1, <5>1 DEF Texts, w
        <5>3. w \o (a \o c) = (w \o a) \o c
          BY <5>2, Regroup
        <5>. QED
          BY <3>1, <4>3, <5>3, Zenon DEF w, c
      <4>. HIDE DEF b
      <4>6. Parted(s)
        BY <4>4, <4>5
      <4>. QED
        BY <4>6
    <3>. QED
      BY <3>2, <3>3
  <2>. QED
    BY <2>1, <2>2
<1>2. Seq(T) \subseteq S
  <2>. HIDE DEF S
  <2>. QED
    BY <1>1, TextInduction, Zenon
<1>. QED
  BY <1>2, Zenon

\* The same of one text, as one predicate.
PartsAt(T, x, s) == \E a \in Seq(T \ {x}), r \in Seq(T) : s = a \o Cons(x, r)

LEMMA CutText ==
  ASSUME NEW T, NEW x, NEW s \in Seq(T), s \notin Seq(T \ {x})
  PROVE  PartsAt(T, x, s)
<1>1. \A u \in Seq(T) :
         u \notin Seq(T \ {x})
         => \E a \in Seq(T \ {x}), r \in Seq(T) : u = a \o Cons(x, r)
  BY CutAtToken
<1>. QED
  BY <1>1 DEF PartsAt

-----------------------------------------------------------------------------
(* The two forms of a reference that is replaced, ${n} and ${n:-d}.        *)

Opens(s, n, t) == s = Cons(Dollar, Cons(Open, Cons(n, t)))
IsPlain(s, n, r) == Opens(s, n, Cons(Brace, r))
IsDefaulted(s, n, d, r) == Opens(s, n, Cons(Colon, Cons(Dash, d \o Cons(Brace, r))))
HasMarks(T) == {Dollar, Open, Brace, Colon, Dash} \subseteq T

LEMMA OpensLaws ==
  ASSUME NEW T, HasMarks(T), NEW n \in T, NEW t \in Seq(T), NEW s, Opens(s, n, t)
  PROVE  /\ s \in Seq(T) /\ s # <<>> /\ Len(s) = Len(t) + 3
         /\ s[1] = Dollar /\ s[2] = Open /\ s[3] = n
         /\ \A j \in 1 .. Len(t) : s[j + 3] = t[j]
<1>. DEFINE b == Cons(n, t)
            a == Cons(Open, b)
<1>0. Dollar \in T /\ Open \in T
  BY DEF HasMarks
<1>1. /\ b \in Seq(T) /\ Len(b) = Len(t) + 1 /\ b[1] = n
      /\ \A j \in 1 .. Len(t) : b[j + 1] = t[j]
  BY ConsLaws
<1>1a. b \in Seq(T)
  BY <1>1
<1>. HIDE DEF b
<1>2. /\ a \in Seq(T) /\ Len(a) = Len(b) + 1 /\ a[1] = Open
      /\ \A j \in 1 .. Len(b) : a[j + 1] = b[j]
  BY <1>0, <1>1a, ConsLaws
<1>. HIDE DEF a
<1>3. IsCons(s, Dollar, a)
  BY Zenon DEF Opens, IsCons, a, b
<1>4. s \in Seq(T) /\ s # <<>>
  <2>1. Cons(Dollar, a) \in Seq(T) /\ Cons(Dollar, a) # <<>>
    BY <1>0, <1>2, ConsLaws
  <2>. QED
    BY <1>3, <2>1, Zenon DEF IsCons
<1>5. /\ Len(s) = Len(a) + 1 /\ s[1] = Dollar
      /\ \A j \in 1 .. Len(a) : s[j + 1] = a[j]
  BY <1>0, <1>2, <1>3, ConsParts
<1>6. Len(t) \in Nat /\ Len(b) = Len(t) + 1 /\ Len(a) = Len(t) + 2 /\ Len(s) = Len(t) + 3
  BY <1>1, <1>2, <1>5
<1>7. s[2] = Open /\ s[3] = n
  <2>1. s[1 + 1] = a[1] /\ s[2 + 1] = a[2] /\ a[1 + 1] = b[1]
    BY <1>2, <1>5, <1>6
  <2>. QED
    BY <1>1, <1>2, <2>1
<1>8. ASSUME NEW j \in 1 .. Len(t) PROVE s[j + 3] = t[j]
  <2>1. j + 1 \in 1 .. Len(b) /\ j + 2 \in 1 .. Len(a) /\ j + 1 + 1 = j + 2 /\ j + 2 + 1 = j + 3
    BY <1>6
  <2>2. b[j + 1] = t[j]
    BY <1>1
  <2>3. a[j + 1 + 1] = b[j + 1]
    BY <1>2, <2>1
  <2>4. s[j + 2 + 1] = a[j + 2]
    BY <1>5, <2>1
  <2>. QED
    BY <2>1, <2>2, <2>3, <2>4, Zenon
<1>. QED
  BY <1>4, <1>5, <1>6, <1>7, <1>8

LEMMA TextOpens ==
  ASSUME NEW T, NEW s \in Seq(T), 3 <= Len(s), s[1] = Dollar, s[2] = Open
  PROVE  \E t \in Seq(T) : Opens(s, s[3], t)
<1>1. PICK x \in T, a \in Seq(T) : s = <<x>> \o a /\ Len(a) < Len(s) /\ x = s[1]
  <2>1. s # <<>>
    OBVIOUS
  <2>. QED
    BY <2>1, HeadAndRest
<1>2. Len(a) >= 2 /\ a[1] = s[2] /\ a[2] = s[3]
  BY <1>1
<1>3. PICK y \in T, b \in Seq(T) : a = <<y>> \o b /\ Len(b) < Len(a) /\ y = a[1]
  <2>1. a # <<>>
    BY <1>2
  <2>. QED
    BY <2>1, HeadAndRest
<1>4. Len(b) >= 1 /\ b[1] = a[2]
  BY <1>2, <1>3
<1>5. PICK z \in T, t \in Seq(T) : b = <<z>> \o t /\ Len(t) < Len(b) /\ z = b[1]
  <2>1. b # <<>>
    BY <1>4
  <2>. QED
    BY <2>1, HeadAndRest
<1>6. x = Dollar /\ y = Open /\ z = s[3]
  BY <1>1, <1>2, <1>3, <1>4, <1>5
<1>7. Opens(s, s[3], t)
  BY <1>1, <1>3, <1>5, <1>6, Zenon DEF Opens, Cons
<1>. QED
  BY <1>7

\* Every match has one of the two forms.
LEMMA MatchForm ==
  ASSUME NEW T, HasMarks(T), NEW s \in Seq(T), s # <<>>, MatchesAt(s, 1)
  PROVE  \E n \in T \cap Name : \/ \E r \in Seq(T) : IsPlain(s, n, r)
                                \/ \E d \in Seq(T \ {Brace}), r \in Seq(T) : IsDefaulted(s, n, d, r)
<1>0. 1 \in 1 .. Len(s)
  OBVIOUS
<1>1. IsMatch(s, 1)
  BY <1>0, MatchesMeans
<1>2. /\ 4 <= Len(s) /\ s[1] = Dollar /\ s[2] = Open /\ s[3] \in Name
      /\ \/ s[4] = Brace
         \/ /\ 5 <= Len(s) /\ s[4] = Colon /\ s[5] = Dash
            /\ \E j \in 6 .. Len(s) : s[j] = Brace
  <2>1. 1 + 3 = 4 /\ 1 + 1 = 2 /\ 1 + 2 = 3 /\ 1 + 4 = 5 /\ 1 + 5 = 6
    OBVIOUS
  <2>. QED
    BY <1>1, <2>1, Zenon DEF IsMatch
<1>3. Len(s) \in Nat /\ 3 <= Len(s) /\ s[3] \in T
  BY <1>2
<1>. DEFINE n == s[3]
<1>4. PICK t \in Seq(T) : Opens(s, n, t)
  BY <1>2, <1>3, TextOpens
<1>5. n \in T /\ n \in Name
  BY <1>2, <1>3
<1>. HIDE DEF n
<1>6. Len(s) = Len(t) + 3 /\ \A j \in 1 .. Len(t) : s[j + 3] = t[j]
  BY <1>4, <1>5, OpensLaws
<1>7. Len(t) \in Nat /\ Len(t) >= 1 /\ t[1] = s[4]
  BY <1>2, <1>3, <1>6
<1>8. PICK x \in T, u \in Seq(T) : t = <<x>> \o u /\ Len(u) < Len(t) /\ x = t[1]
  <2>1. t # <<>>
    BY <1>7
  <2>. QED
    BY <2>1, HeadAndRest
<1>9. CASE s[4] = Brace
  <2>1. t = Cons(Brace, u)
    BY <1>7, <1>8, <1>9, Zenon DEF Cons
  <2>2. IsPlain(s, n, u)
    BY <1>4, <2>1, Zenon DEF IsPlain
  <2>. QED
    BY <1>5, <2>2
<1>10. CASE 5 <= Len(s) /\ s[4] = Colon /\ s[5] = Dash /\ \E j \in 6 .. Len(s) : s[j] = Brace
  <2>1. Len(u) \in Nat /\ Len(u) = Len(t) - 1 /\ u[1] = t[2] /\ t[2] = s[5] /\ Len(u) >= 1
    BY <1>6, <1>7, <1>8, <1>10
  <2>2. PICK y \in T, v \in Seq(T) : u = <<y>> \o v /\ Len(v) < Len(u) /\ y = u[1]
    <3>1. u # <<>>
      BY <2>1
    <3>. QED
      BY <3>1, HeadAndRest
  <2>3. t = Cons(Colon, Cons(Dash, v))
    BY <1>7, <1>8, <1>10, <2>1, <2>2, Zenon DEF Cons
  <2>4. \E j \in 1 .. Len(v) : v[j] = Brace
    <3>1. PICK j \in 6 .. Len(s) : s[j] = Brace
      BY <1>10
    <3>2. Len(v) = Len(u) - 1 /\ Len(v) \in Nat /\ \A i \in 1 .. Len(v) : u[i + 1] = v[i]
      BY <2>2
    <3>3. \A i \in 1 .. Len(u) : t[i + 1] = u[i]
      BY <1>8
    <3>4. j - 5 \in 1 .. Len(v) /\ j - 4 \in 1 .. Len(u) /\ j - 3 \in 1 .. Len(t)
          /\ j - 5 + 1 = j - 4 /\ j - 4 + 1 = j - 3 /\ j - 3 + 3 = j
      BY <1>6, <1>7, <2>1, <3>2
    <3>5. v[j - 5] = u[j - 4] /\ u[j - 4] = t[j - 3] /\ t[j - 3] = s[j]
      BY <1>6, <3>2, <3>3, <3>4
    <3>. QED
      BY <3>1, <3>4, <3>5
  <2>5. v \notin Seq(T \ {Brace})
    BY <2>4
  <2>6. PICK d \in Seq(T \ {Brace}), r \in Seq(T) : v = d \o Cons(Brace, r)
    <3>1. v \in Seq(T)
      BY <2>2
    <3>2. PartsAt(T, Brace, v)
      BY <2>5, <3>1, CutText, Zenon
    <3>. QED
      BY <3>2, Zenon DEF PartsAt
  <2>7. IsDefaulted(s, n, d, r)
    BY <1>4, <2>3, <2>6, Zenon DEF IsDefaulted
  <2>. QED
    BY <1>5, <2>7
<1>. QED
  BY <1>2, <1>9, <1>10

\* What is behind a piece of t is behind it and the head of s.
LEMMA OpensJoins ==
  ASSUME NEW T, HasMarks(T), NEW n \in T, NEW t \in Seq(T), NEW s, Opens(s, n, t),
         NEW q \in Seq(T), NEW r \in Seq(T), Joins(t, q, r)
  PROVE  \E p \in Seq(T) : Joins(s, p, r) /\ Len(p) = Len(q) + 3
<1>. DEFINE b == Cons(n, t)
            a == Cons(Open, b)
            y == Cons(n, q)
            x == Cons(Open, y)
            p == Cons(Dollar, x)
<1>0. Dollar \in T /\ Open \in T
  BY DEF HasMarks
<1>1. b \in Seq(T)
  BY ConsLaws
<1>2. y \in Seq(T) /\ Len(y) = Len(q) + 1
  BY ConsLaws
<1>3. Joins(b, y, r)
  BY ConsJoins
<1>4. y \in Seq(T)
  BY <1>2
<1>. HIDE DEF b, y
<1>5. a \in Seq(T)
  BY <1>0, <1>1, ConsLaws
<1>6. x \in Seq(T) /\ Len(x) = Len(y) + 1
  BY <1>0, <1>4, ConsLaws
<1>7. Joins(a, x, r)
  BY <1>0, <1>1, <1>3, <1>4, ConsJoins
<1>8. x \in Seq(T)
  BY <1>6
<1>. HIDE DEF a, x
<1>9. p \in Seq(T) /\ Len(p) = Len(x) + 1
  BY <1>0, <1>8, ConsLaws
<1>10. Joins(Cons(Dollar, a), p, r)
  BY <1>0, <1>5, <1>7, <1>8, ConsJoins
<1>11. s = Cons(Dollar, a)
  BY Zenon DEF Opens, a, b
<1>12. Len(p) = Len(q) + 3
  <2>1. Len(q) \in Nat
    OBVIOUS
  <2>. HIDE DEF p
  <2>. QED
    BY <1>2, <1>6, <1>9, <2>1
<1>. HIDE DEF p
<1>. QED
  BY <1>9, <1>10, <1>11, <1>12

\* What a match of the first form is, and what is behind it.
LEMMA PlainMatch ==
  ASSUME NEW T, HasMarks(T), NEW n \in T, n \in Name, NEW r \in Seq(T), NEW s, IsPlain(s, n, r)
  PROVE  /\ s \in Seq(T) /\ s # <<>> /\ Len(r) < Len(s)
         /\ s[1 + 2] = n /\ ~HasDefault(s, 1)
         /\ MatchesAt(s, 1) /\ MatchEnd(s, 1) = 4
         /\ \E p \in Seq(T) : Joins(s, p, r) /\ Len(p) = 4
<1>. DEFINE t == Cons(Brace, r)
<1>0. Dollar \in T /\ Open \in T /\ Brace \in T
  BY DEF HasMarks
<1>1. t \in Seq(T) /\ Len(t) = Len(r) + 1 /\ t[1] = Brace
  BY <1>0, ConsLaws
<1>2. Opens(s, n, t)
  BY DEF IsPlain
<1>. HIDE DEF t
<1>3. /\ s \in Seq(T) /\ s # <<>> /\ Len(s) = Len(t) + 3
      /\ s[1] = Dollar /\ s[2] = Open /\ s[3] = n
      /\ \A j \in 1 .. Len(t) : s[j + 3] = t[j]
  BY <1>1, <1>2, OpensLaws
<1>4. s[4] = Brace /\ Len(s) = Len(r) + 4 /\ Len(r) \in Nat
  BY <1>1, <1>3
<1>5. 1 + 3 = 4 /\ 1 + 1 = 2 /\ 1 + 2 = 3 /\ 4 <= Len(s) /\ 1 \in 1 .. Len(s)
  BY <1>3, <1>4
<1>6. IsMatch(s, 1)
  BY <1>3, <1>4, <1>5, Zenon DEF IsMatch
<1>7. MatchesAt(s, 1)
  BY <1>3, <1>5, <1>6, MatchesMeans
<1>8. ~HasDefault(s, 1)
  BY <1>4, <1>5, Marks, Zenon DEF HasDefault, Colon
<1>9. MatchEnd(s, 1) = 4
  <2>. DEFINE e == MatchEnd(s, 1)
  <2>1. e \in 1 + 3 .. Len(s) /\ \A j \in 1 + 3 .. e - 1 : s[j] # Brace
    BY <1>3, <1>5, <1>6, MatchEndMeans
  <2>. HIDE DEF e
  <2>2. e = 4
    BY <1>4, <2>1
  <2>. QED
    BY <2>2 DEF e
<1>10. \E p \in Seq(T) : Joins(s, p, r) /\ Len(p) = 4
  <2>. DEFINE q == <<Brace>>
  <2>1. q \in Seq(T) /\ Len(q) + 3 = 4
    BY <1>0
  <2>2. Joins(t, q, r)
    BY DEF Joins, Cons, t
  <2>. HIDE DEF q
  <2>3. PICK p \in Seq(T) : Joins(s, p, r) /\ Len(p) = Len(q) + 3
    BY <1>1, <1>2, <2>1, <2>2, OpensJoins
  <2>. QED
    BY <2>1, <2>3
<1>. QED
  BY <1>3, <1>4, <1>5, <1>7, <1>8, <1>9, <1>10

\* The same of the second form.
DefaultedShape(T, s, n, d, r) ==
  /\ s \in Seq(T) /\ s # <<>> /\ Len(r) < Len(s)
  /\ s[1 + 2] = n /\ HasDefault(s, 1) /\ DefaultAt(s, 1) = d
  /\ MatchesAt(s, 1) /\ MatchEnd(s, 1) = Len(d) + 6
  /\ \E p \in Seq(T) : Joins(s, p, r) /\ Len(p) = Len(d) + 6

LEMMA DefaultedMatch ==
  ASSUME NEW T, HasMarks(T), NEW n \in T, n \in Name, NEW d \in Seq(T \ {Brace}),
         NEW r \in Seq(T), NEW s, IsDefaulted(s, n, d, r)
  PROVE  DefaultedShape(T, s, n, d, r)
<1>. DEFINE c == Cons(Brace, r)
            v == d \o c
            h == Cons(Dash, v)
            t == Cons(Colon, h)
            k == Len(d)
<1>0. Dollar \in T /\ Open \in T /\ Brace \in T /\ Colon \in T /\ Dash \in T
  BY DEF HasMarks
<1>1. d \in Seq(T) /\ k \in Nat /\ Len(r) \in Nat
  <2>1. Seq(T \ {Brace}) \subseteq Seq(T)
    BY SeqMonotonic
  <2>. QED
    BY <2>1
<1>2. c \in Seq(T) /\ Len(c) = Len(r) + 1 /\ c[1] = Brace
  BY <1>0, ConsLaws
<1>. HIDE DEF c
<1>3. /\ v \in Seq(T) /\ Len(v) = k + Len(c) /\ v[k + 1] = Brace
      /\ \A j \in 1 .. k : v[j] = d[j]
  BY <1>1, <1>2
<1>3a. v \in Seq(T)
  BY <1>3
<1>. HIDE DEF v
<1>4. /\ h \in Seq(T) /\ Len(h) = Len(v) + 1 /\ h[1] = Dash
      /\ \A j \in 1 .. Len(v) : h[j + 1] = v[j]
  BY <1>0, <1>3a, ConsLaws
<1>4a. h \in Seq(T)
  BY <1>4
<1>. HIDE DEF h
<1>5. /\ t \in Seq(T) /\ Len(t) = Len(h) + 1 /\ t[1] = Colon
      /\ \A j \in 1 .. Len(h) : t[j + 1] = h[j]
  BY <1>0, <1>4a, ConsLaws
<1>5a. t \in Seq(T)
  BY <1>5
<1>. HIDE DEF t
<1>6. Opens(s, n, t)
  BY Zenon DEF IsDefaulted, t, h, v, c
<1>7. /\ s \in Seq(T) /\ s # <<>> /\ Len(s) = Len(t) + 3
      /\ s[1] = Dollar /\ s[2] = Open /\ s[3] = n
      /\ \A j \in 1 .. Len(t) : s[j + 3] = t[j]
  BY <1>5a, <1>6, OpensLaws
<1>. HIDE DEF k
<1>8. /\ Len(v) = k + Len(r) + 1 /\ Len(h) = k + Len(r) + 2 /\ Len(t) = k + Len(r) + 3
      /\ Len(s) = k + Len(r) + 6 /\ Len(v) \in Nat /\ Len(h) \in Nat /\ Len(t) \in Nat
  BY <1>1, <1>2, <1>3, <1>4, <1>5, <1>7
<1>9. ASSUME NEW j \in 1 .. Len(v) PROVE s[j + 5] = v[j]
  <2>1. j + 1 \in 1 .. Len(h) /\ j + 2 \in 1 .. Len(t) /\ j + 1 + 1 = j + 2 /\ j + 2 + 3 = j + 5
    <3>1. Len(v) \in Nat /\ Len(h) = Len(v) + 1 /\ Len(t) = Len(v) + 2
      BY <1>1, <1>8
    <3>. QED
      BY <3>1
  <2>2. h[j + 1] = v[j]
    BY <1>4
  <2>3. t[j + 1 + 1] = h[j + 1]
    BY <1>5, <2>1
  <2>4. s[j + 2 + 3] = t[j + 2]
    BY <1>7, <2>1
  <2>. QED
    BY <2>1, <2>2, <2>3, <2>4, Zenon
<1>10. s[4] = Colon /\ s[5] = Dash
  <2>1. 1 \in 1 .. Len(t) /\ 2 \in 1 .. Len(t) /\ 1 \in 1 .. Len(h)
    BY <1>1, <1>8
  <2>2. s[1 + 3] = t[1] /\ s[2 + 3] = t[2] /\ t[1 + 1] = h[1]
    BY <1>5, <1>7, <2>1
  <2>. QED
    BY <1>4, <1>5, <2>2
<1>11. /\ s[k + 6] = Brace /\ \A j \in 6 .. k + 5 : s[j] # Brace /\ s[j] = d[j - 5]
  <2>1. s[k + 1 + 5] = v[k + 1] /\ k + 1 + 5 = k + 6
    <3>1. k + 1 \in 1 .. Len(v) /\ k + 1 + 5 = k + 6
      BY <1>1, <1>8
    <3>2. s[k + 1 + 5] = v[k + 1]
      BY <1>9, <3>1
    <3>. QED
      BY <3>1, <3>2, Zenon
  <2>2. ASSUME NEW j \in 6 .. k + 5 PROVE s[j] # Brace /\ s[j] = d[j - 5]
    <3>1. j - 5 \in 1 .. k /\ j - 5 \in 1 .. Len(v) /\ j - 5 + 5 = j
      BY <1>1, <1>8
    <3>2. s[j - 5 + 5] = v[j - 5] /\ v[j - 5] = d[j - 5]
      BY <1>3, <1>9, <3>1
    <3>3. d[j - 5] # Brace
      BY <3>1 DEF k
    <3>. QED
      BY <3>1, <3>2, <3>3
  <2>. QED
    BY <1>3, <2>1, <2>2
<1>12. /\ 1 + 3 = 4 /\ 1 + 1 = 2 /\ 1 + 2 = 3 /\ 1 + 4 = 5 /\ 1 + 5 = 6
       /\ 4 <= Len(s) /\ 5 <= Len(s) /\ 1 \in 1 .. Len(s) /\ k + 6 \in 6 .. Len(s)
  BY <1>1, <1>8
<1>13. IsMatch(s, 1)
  BY <1>7, <1>10, <1>11, <1>12, Zenon DEF IsMatch
<1>14. MatchesAt(s, 1)
  BY <1>7, <1>12, <1>13, MatchesMeans
<1>15. HasDefault(s, 1)
  BY <1>10, <1>12, Zenon DEF HasDefault, Colon
<1>16. MatchEnd(s, 1) = k + 6
  <2>. DEFINE e == MatchEnd(s, 1)
  <2>1. e \in 1 + 3 .. Len(s) /\ s[e] = Brace /\ \A j \in 1 + 3 .. e - 1 : s[j] # Brace
    BY <1>7, <1>12, <1>13, MatchEndMeans
  <2>. HIDE DEF e
  <2>2. s[4] # Brace /\ s[5] # Brace
    BY <1>10, Marks
  <2>3. e <= k + 6
    BY <1>1, <1>11, <1>12, <2>1
  <2>4. e >= 6
    BY <2>1, <2>2
  <2>5. ~(e \in 6 .. k + 5)
    BY <1>11, <2>1
  <2>6. e = k + 6
    BY <1>1, <2>1, <2>3, <2>4, <2>5
  <2>. QED
    BY <2>6 DEF e
<1>17. DefaultAt(s, 1) = d
  <2>1. DefaultAt(s, 1) = SubSeq(s, 6, k + 5)
    <3>. DEFINE e == MatchEnd(s, 1)
                i == 1 + 5
                f == e - 1
    <3>1. DefaultAt(s, 1) = SubSeq(s, i, f)
      BY Zenon DEF DefaultAt
    <3>2. e = k + 6
      BY <1>16
    <3>. HIDE DEF e
    <3>3. i = 6 /\ f = k + 5
      BY <1>1, <3>2
    <3>. QED
      BY <3>1, <3>3, Zenon
  <2>. DEFINE last == k + 5
              q == SubSeq(s, 6, last)
  <2>2. last \in Int /\ last <= Len(s) /\ last >= 5 /\ last - 5 = k
    BY <1>1, <1>8
  <2>. HIDE DEF last
  <2>3. q \in Seq(T) /\ Len(q) = last - 5 /\ \A j \in 1 .. last - 5 : q[j] = s[j + 5]
    BY <1>7, <2>2
  <2>. HIDE DEF q
  <2>4. \A j \in 1 .. k : q[j] = d[j]
    <3>1. ASSUME NEW j \in 1 .. k PROVE q[j] = d[j]
      <4>1. j + 5 \in 6 .. k + 5 /\ j + 5 - 5 = j
        BY <1>1
      <4>2. s[j + 5] = d[j]
        BY <1>11, <4>1
      <4>. QED
        BY <2>2, <2>3, <4>2
    <3>. QED
      BY <3>1
  <2>5. Len(q) = Len(d)
    BY <2>2, <2>3 DEF k
  <2>6. q = d
    BY <1>1, <2>3, <2>4, <2>5, SeqEqual DEF k
  <2>. QED
    BY <2>1, <2>6 DEF q, last
<1>18. \E p \in Seq(T) : Joins(s, p, r) /\ Len(p) = k + 6
  <2>. DEFINE b == <<Brace>>
              g == d \o b
              i == Cons(Dash, g)
              q == Cons(Colon, i)
  <2>1. b \in Seq(T) /\ g \in Seq(T) /\ Len(g) = k + 1
    BY <1>0, <1>1 DEF k
  <2>2. c = b \o r
    BY DEF c, Cons
  <2>. HIDE DEF b
  <2>3. Joins(v, g, r)
    <3>1. Texts(T, d, b, r)
      BY <1>1, <2>1 DEF Texts
    <3>. QED
      BY <2>2, <3>1, Regroup DEF v, Joins
  <2>4. g \in Seq(T)
    BY <2>1
  <2>. HIDE DEF g
  <2>5. i \in Seq(T) /\ Len(i) = Len(g) + 1
    BY <1>0, <2>4, ConsLaws
  <2>6. Joins(h, i, r)
    BY <1>0, <1>3a, <2>3, <2>4, ConsJoins DEF h
  <2>7. i \in Seq(T)
    BY <2>5
  <2>. HIDE DEF i
  <2>8. q \in Seq(T) /\ Len(q) = Len(i) + 1
    BY <1>0, <2>7, ConsLaws
  <2>9. Joins(t, q, r)
    BY <1>0, <1>4a, <2>6, <2>7, ConsJoins DEF t
  <2>10. q \in Seq(T) /\ Len(q) + 3 = k + 6
    BY <1>1, <2>1, <2>5, <2>8
  <2>. HIDE DEF q
  <2>11. PICK p \in Seq(T) : Joins(s, p, r) /\ Len(p) = Len(q) + 3
    BY <1>5a, <1>6, <2>9, <2>10, OpensJoins
  <2>. QED
    BY <2>10, <2>11
<1>19. Len(r) < Len(s) /\ s[1 + 2] = n
  BY <1>1, <1>7, <1>8
<1>. QED
  BY <1>7, <1>14, <1>15, <1>16, <1>17, <1>18, <1>19, Zenon DEF k, DefaultedShape

-----------------------------------------------------------------------------
(* Masked, replaced and unmasked, a text is read once.                     *)

LEMMA TokMarks ==
  /\ HasMarks(Tok) /\ HasMarks(Tok \ {Mask})
  /\ Dollar \in Tok /\ Mask \in Tok /\ Brace \in Tok /\ Mask # Dollar /\ Brace # Mask
  /\ \A n \in Name : n # Dollar /\ n # Open /\ n # Brace
<1>1. {Dollar, Open, Brace, Colon, Dash} \subseteq Tok \ {Mask}
  BY Marks DEF Tok
<1>2. Mask \in Tok
  BY DEF Tok
<1>. QED
  BY <1>1, <1>2, Marks DEF HasMarks

\* A token that no second dollar sign follows is itself when masked.
LEMMA MaskedCons ==
  ASSUME NEW x \in Tok, NEW r \in Seq(Tok), x = Dollar /\ r # <<>> => r[1] # Dollar
  PROVE  MaskedOf[Cons(x, r)] = Cons(x, MaskedOf[r])
BY MaskLaws, Zenon DEF ReplacesTwo, Cons

LEMMA MaskedText ==
  ASSUME NEW s \in Seq(Tok)
  PROVE  MaskedOf[s] \in Seq(Tok)
BY MaskLaws, Zenon DEF ReplacesTwo

\* A reference is masked behind its name.
LEMMA MaskedOpens ==
  ASSUME NEW n \in Tok, n \in Name, NEW t \in Seq(Tok), NEW s, Opens(s, n, t)
  PROVE  Opens(MaskedOf[s], n, MaskedOf[t])
<1>. DEFINE b == Cons(n, t)
            a == Cons(Open, b)
<1>0. Dollar \in Tok /\ Open \in Tok /\ n # Dollar /\ Open # Dollar
  BY TokMarks, Marks DEF HasMarks
<1>1. b \in Seq(Tok) /\ b[1] = n
  BY ConsLaws
<1>2. MaskedOf[b] = Cons(n, MaskedOf[t])
  BY <1>0, MaskedCons
<1>3. b \in Seq(Tok)
  BY <1>1
<1>. HIDE DEF b
<1>4. a \in Seq(Tok) /\ a[1] = Open
  BY <1>0, <1>3, ConsLaws
<1>5. MaskedOf[a] = Cons(Open, MaskedOf[b])
  BY <1>0, <1>3, MaskedCons
<1>6. a \in Seq(Tok) /\ a[1] # Dollar
  BY <1>0, <1>4
<1>. HIDE DEF a
<1>7. MaskedOf[Cons(Dollar, a)] = Cons(Dollar, MaskedOf[a])
  BY <1>0, <1>6, MaskedCons
<1>8. s = Cons(Dollar, a)
  BY Zenon DEF Opens, a, b
<1>. QED
  BY <1>2, <1>5, <1>7, <1>8, Zenon DEF Opens

LEMMA MaskedPlain ==
  ASSUME NEW n \in Tok, n \in Name, NEW r \in Seq(Tok), NEW s, IsPlain(s, n, r)
  PROVE  IsPlain(MaskedOf[s], n, MaskedOf[r])
<1>. DEFINE t == Cons(Brace, r)
<1>1. t \in Seq(Tok)
  BY TokMarks, ConsLaws
<1>2. MaskedOf[t] = Cons(Brace, MaskedOf[r])
  <2>1. Brace \in Tok /\ Brace # Dollar
    BY TokMarks, Marks
  <2>. QED
    BY <2>1, MaskedCons
<1>3. Opens(s, n, t)
  BY DEF IsPlain
<1>. HIDE DEF t
<1>4. Opens(MaskedOf[s], n, MaskedOf[t])
  BY <1>1, <1>3, MaskedOpens
<1>. QED
  BY <1>2, <1>4, Zenon DEF IsPlain

LEMMA MaskedDefaulted ==
  ASSUME NEW n \in Tok, n \in Name, NEW d \in Seq(Tok \ {Brace}), NEW r \in Seq(Tok),
         NEW s, IsDefaulted(s, n, d, r)
  PROVE  /\ IsDefaulted(MaskedOf[s], n, MaskedOf[d], MaskedOf[r])
         /\ MaskedOf[d] \in Seq(Tok \ {Brace})
<1>. DEFINE c == Cons(Brace, r)
            v == d \o c
            h == Cons(Dash, v)
            t == Cons(Colon, h)
<1>0. /\ Dollar \in Tok /\ Brace \in Tok /\ Colon \in Tok /\ Dash \in Tok /\ Mask \in Tok
      /\ Brace # Dollar /\ Brace # Mask /\ Colon # Dollar /\ Dash # Dollar
      /\ ReplacesTwo(Tok, Dollar, Dollar, <<Mask>>, MaskedOf)
  BY TokMarks, Marks, MaskLaws DEF HasMarks
<1>1. d \in Seq(Tok)
  BY SeqMonotonic
<1>2. MaskedOf[d] \in Seq(Tok \ {Brace})
  BY <1>0, MaskedAddsNone
<1>3. MaskedOf[v] = MaskedOf[d] \o Cons(Brace, MaskedOf[r])
  <2>1. \A a \in Seq(Tok) : MaskedOf[a \o Cons(Brace, r)] = MaskedOf[a] \o Cons(Brace, MaskedOf[r])
    <3>1. PartsBefore(Tok, MaskedOf, Cons(Brace, r), Cons(Brace, MaskedOf[r]))
      BY <1>0, MaskedApart
    <3>. QED
      BY <3>1, Zenon DEF PartsBefore
  <2>. QED
    BY <1>1, <2>1, Zenon
<1>4. c \in Seq(Tok)
  BY <1>0, ConsLaws
<1>5. v \in Seq(Tok)
  <2>. HIDE DEF c
  <2>. QED
    BY <1>1, <1>4
<1>. HIDE DEF v
<1>6. h \in Seq(Tok) /\ MaskedOf[h] = Cons(Dash, MaskedOf[v])
  BY <1>0, <1>5, ConsLaws, MaskedCons
<1>7. h \in Seq(Tok)
  BY <1>6
<1>. HIDE DEF h
<1>8. t \in Seq(Tok) /\ MaskedOf[t] = Cons(Colon, MaskedOf[h])
  BY <1>0, <1>7, ConsLaws, MaskedCons
<1>9. t \in Seq(Tok)
  BY <1>8
<1>. HIDE DEF t
<1>10. Opens(s, n, t)
  BY Zenon DEF IsDefaulted, t, h, v
<1>11. Opens(MaskedOf[s], n, MaskedOf[t])
  BY <1>9, <1>10, MaskedOpens
<1>12. IsDefaulted(MaskedOf[s], n, MaskedOf[d], MaskedOf[r])
  BY <1>3, <1>6, <1>8, <1>11, Zenon DEF IsDefaulted
<1>. QED
  BY <1>2, <1>12

\* What opens a reference in a masked text opens it in the text.
LEMMA MaskedOpenBefore ==
  ASSUME NEW s \in Seq(Tok), NEW n \in Tok, n \in Name, n # Mask, NEW w \in Seq(Tok),
         Opens(MaskedOf[s], n, w)
  PROVE  \E t \in Seq(Tok) : Opens(s, n, t) /\ w = MaskedOf[t]
<1>. DEFINE b == Cons(n, w)
            a == Cons(Open, b)
<1>0. /\ Dollar \in Tok /\ Open \in Tok /\ Mask \in Tok /\ Mask # Dollar /\ Mask # Open
      /\ ReplacesTwo(Tok, Dollar, Dollar, <<Mask>>, MaskedOf)
  BY TokMarks, MaskLaws, Marks DEF HasMarks
<1>1. b \in Seq(Tok)
  BY ConsLaws
<1>. HIDE DEF b
<1>2. a \in Seq(Tok)
  BY <1>0, <1>1, ConsLaws
<1>. HIDE DEF a
<1>3. MaskedOf[s] = Cons(Dollar, a)
  BY Zenon DEF Opens, a, b
<1>4. PICK p \in Seq(Tok) : s = Cons(Dollar, p) /\ a = MaskedOf[p]
  BY <1>0, <1>2, <1>3, MaskedHead
<1>5. MaskedOf[p] = Cons(Open, b)
  BY <1>4 DEF a
<1>6. PICK q \in Seq(Tok) : p = Cons(Open, q) /\ b = MaskedOf[q]
  BY <1>0, <1>1, <1>5, MaskedHead
<1>7. MaskedOf[q] = Cons(n, w)
  BY <1>6 DEF b
<1>8. PICK t \in Seq(Tok) : q = Cons(n, t) /\ w = MaskedOf[t]
  BY <1>0, <1>7, MaskedHead
<1>9. Opens(s, n, t)
  BY <1>4, <1>6, <1>8, Zenon DEF Opens
<1>. QED
  BY <1>8, <1>9

\* A masked text begins with a match only where the text does.
LEMMA MatchBefore ==
  ASSUME NEW s \in Seq(Tok \ {Mask}), s # <<>>, MaskedOf[s] # <<>>, MatchesAt(MaskedOf[s], 1)
  PROVE  MatchesAt(s, 1)
<1>. DEFINE w == MaskedOf[s]
<1>0. /\ s \in Seq(Tok) /\ HasMarks(Tok) /\ Brace \in Tok /\ Mask \in Tok /\ Dollar \in Tok
      /\ Colon \in Tok /\ Dash \in Tok
      /\ Brace # Mask /\ Brace # Dollar /\ Colon # Mask /\ Dash # Mask
      /\ ReplacesTwo(Tok, Dollar, Dollar, <<Mask>>, MaskedOf)
  <2>1. s \in Seq(Tok)
    BY SeqMonotonic
  <2>. QED
    BY <2>1, TokMarks, MaskLaws, Marks DEF HasMarks
<1>1. w \in Seq(Tok)
  BY <1>0, MaskedText
<1>. HIDE DEF w
<1>2. PICK n \in Tok \cap Name : \/ \E r \in Seq(Tok) : IsPlain(w, n, r)
                                 \/ \E d \in Seq(Tok \ {Brace}), r \in Seq(Tok) :
                                       IsDefaulted(w, n, d, r)
  <2>1. w # <<>> /\ MatchesAt(w, 1)
    BY DEF w
  <2>. QED
    BY <1>0, <1>1, <2>1, MatchForm
<1>3. n \in Tok /\ n \in Name
  BY <1>2
<1>4. n # Mask
  BY <1>3, Marks
<1>5. ASSUME NEW r \in Seq(Tok), IsPlain(w, n, r) PROVE MatchesAt(s, 1)
  <2>. DEFINE t == Cons(Brace, r)
  <2>1. t \in Seq(Tok)
    BY <1>0, ConsLaws
  <2>2. Opens(MaskedOf[s], n, t)
    BY <1>5, Zenon DEF IsPlain, w
  <2>. HIDE DEF t
  <2>3. PICK u \in Seq(Tok) : Opens(s, n, u) /\ t = MaskedOf[u]
    BY <1>0, <1>3, <1>4, <2>1, <2>2, MaskedOpenBefore
  <2>4. MaskedOf[u] = Cons(Brace, r)
    BY <2>3 DEF t
  <2>5. PICK q \in Seq(Tok) : u = Cons(Brace, q)
    BY <1>0, <2>4, MaskedHead
  <2>6. IsPlain(s, n, q)
    BY <2>3, <2>5, Zenon DEF IsPlain
  <2>. QED
    BY <1>0, <1>3, <2>6, PlainMatch
<1>6. ASSUME NEW d \in Seq(Tok \ {Brace}), NEW r \in Seq(Tok), IsDefaulted(w, n, d, r)
      PROVE  MatchesAt(s, 1)
  <2>. DEFINE c == Cons(Brace, r)
              v == d \o c
              h == Cons(Dash, v)
              t == Cons(Colon, h)
  <2>1. d \in Seq(Tok)
    BY SeqMonotonic
  <2>2. c \in Seq(Tok) /\ c[1] = Brace /\ Len(c) = Len(r) + 1
    BY <1>0, ConsLaws
  <2>. HIDE DEF c
  <2>3. v \in Seq(Tok) /\ v \notin Seq(Tok \ {Brace})
    <3>1. v \in Seq(Tok) /\ Len(d) + 1 \in 1 .. Len(v) /\ v[Len(d) + 1] = Brace
      BY <2>1, <2>2
    <3>. HIDE DEF v
    <3>. QED
      BY <3>1
  <2>4. v \in Seq(Tok)
    BY <2>3
  <2>. HIDE DEF v
  <2>5. h \in Seq(Tok)
    BY <1>0, <2>4, ConsLaws
  <2>. HIDE DEF h
  <2>6. t \in Seq(Tok)
    BY <1>0, <2>5, ConsLaws
  <2>7. Opens(MaskedOf[s], n, t)
    BY <1>6, Zenon DEF IsDefaulted, w, h, v, c
  <2>. HIDE DEF t
  <2>8. PICK u \in Seq(Tok) : Opens(s, n, u) /\ t = MaskedOf[u]
    BY <1>0, <1>3, <1>4, <2>6, <2>7, MaskedOpenBefore
  <2>9. MaskedOf[u] = Cons(Colon, h)
    BY <2>8 DEF t
  <2>10. PICK q \in Seq(Tok) : u = Cons(Colon, q) /\ h = MaskedOf[q]
    BY <1>0, <2>5, <2>9, MaskedHead
  <2>11. MaskedOf[q] = Cons(Dash, v)
    BY <2>10 DEF h
  <2>12. PICK e \in Seq(Tok) : q = Cons(Dash, e) /\ v = MaskedOf[e]
    BY <1>0, <2>4, <2>11, MaskedHead
  <2>13. e \notin Seq(Tok \ {Brace})
    BY <1>0, <2>3, <2>12, MaskedAddsNone
  <2>14. PICK a \in Seq(Tok \ {Brace}), b \in Seq(Tok) : e = a \o Cons(Brace, b)
    <3>1. e \in Seq(Tok)
      BY <2>12
    <3>2. PartsAt(Tok, Brace, e)
      BY <2>13, <3>1, CutText, Zenon
    <3>. QED
      BY <3>2, Zenon DEF PartsAt
  <2>15. IsDefaulted(s, n, a, b)
    BY <2>8, <2>10, <2>12, <2>14, Zenon DEF IsDefaulted
  <2>. QED
    BY <1>0, <1>3, <2>15, DefaultedMatch DEF DefaultedShape
<1>. QED
  BY <1>2, <1>5, <1>6

\* No text of a variable is the mark of an unset one.
LEMMA TextIsSet ==
  ASSUME NEW v \in Seq(Char)
  PROVE  v # <<Unset>>
<1>1. Len(v) = 1 => v[1] \in Char
  OBVIOUS
<1>2. Unset \notin Char
  BY Marks
<1>. SUFFICES ASSUME v = <<Unset>> PROVE FALSE
  OBVIOUS
<1>3. Len(v) = 1 /\ v[1] = Unset
  OBVIOUS
<1>. QED
  BY <1>1, <1>2, <1>3, Zenon

\* What is written for a match, unmasked, is what the reading makes of it.
LEMMA ValueOfPlain ==
  ASSUME NEW env, IsEnv(env), NEW s, NEW w, s[1 + 2] = w[1 + 2],
         ~HasDefault(s, 1), ~HasDefault(w, 1)
  PROVE  UnmaskedOf[Replacement(w, 1, env)] = ReadValue(s, 1, env)
<1>. DEFINE name == s[1 + 2]
            value == IF IsSet(env, name) THEN env[name] ELSE <<Unset>>
<1>1. value \in Seq(Tok \ {Mask})
  <2>1. CASE IsSet(env, name)
    BY <2>1, EnvType, CharTexts
  <2>2. CASE ~IsSet(env, name)
    <3>1. Unset \in Tok \ {Mask}
      BY Marks DEF Tok
    <3>. QED
      BY <2>2, <3>1
  <2>. QED
    BY <2>1, <2>2
<1>2. ReadValue(s, 1, env) = value
  BY Zenon DEF ReadValue
<1>3. Replacement(w, 1, env) = value
  <2>1. CASE IsSet(env, name) /\ env[name] # <<>>
    BY <2>1, Zenon DEF Replacement
  <2>2. CASE IsSet(env, name) /\ env[name] = <<>>
    BY <2>2, Zenon DEF Replacement
  <2>3. CASE ~IsSet(env, name)
    BY <2>3, Zenon DEF Replacement
  <2>. QED
    BY <2>1, <2>2, <2>3
<1>. HIDE DEF value
<1>4. UnmaskedOf[value] = value
  BY <1>1, MaskLaws, UnmaskedKeeps
<1>. QED
  BY <1>2, <1>3, <1>4, Zenon

LEMMA ValueOfDefaulted ==
  ASSUME NEW env, IsEnv(env), NEW s, NEW w, s[1 + 2] = w[1 + 2],
         HasDefault(s, 1), HasDefault(w, 1),
         NEW d \in Seq(Tok \ {Mask}), DefaultAt(s, 1) = d, DefaultAt(w, 1) = MaskedOf[d]
  PROVE  UnmaskedOf[Replacement(w, 1, env)] = ReadValue(s, 1, env)
<1>. DEFINE name == s[1 + 2]
            taken == IsSet(env, name) /\ env[name] # <<>>
            D == [t \in Seq(Tok) |-> ReplaceEach(t, <<Dollar, Dollar>>, <<Dollar>>)]
<1>0. /\ Dollar \in Tok /\ Mask \in Tok /\ Mask # Dollar
      /\ ReplacesTwo(Tok, Dollar, Dollar, <<Mask>>, MaskedOf)
      /\ ReplacesOne(Tok, Mask, <<Dollar>>, UnmaskedOf)
      /\ d \in Seq(Tok)
  <2>1. d \in Seq(Tok)
    BY SeqMonotonic
  <2>. QED
    BY <2>1, MaskLaws
<1>1. UnmaskedOf[MaskedOf[d]] = ReplaceEach(d, <<Dollar, Dollar>>, <<Dollar>>)
  <2>1. <<Dollar>> \in Seq(Tok)
    BY <1>0
  <2>2. ReplacesTwo(Tok, Dollar, Dollar, <<Dollar>>, D)
    BY <1>0, <2>1, ReplaceTwoLaws
  <2>3. D[d] = ReplaceEach(d, <<Dollar, Dollar>>, <<Dollar>>)
    BY <1>0
  <2>. HIDE DEF D
  <2>4. UnmaskedOf[MaskedOf[d]] = D[d]
    BY <1>0, <2>2, MaskedUndoes
  <2>. QED
    BY <2>3, <2>4
<1>2. CASE taken
  <2>1. Replacement(w, 1, env) = env[name]
    BY <1>2, Zenon DEF Replacement
  <2>2. env[name] \in Seq(Char) /\ env[name] \in Seq(Tok \ {Mask})
    BY <1>2, EnvType, CharTexts
  <2>3. env[name] # <<Unset>>
    <3>. DEFINE v == env[name]
    <3>1. v \in Seq(Char) /\ Unset \notin Char
      BY <2>2, Marks
    <3>. HIDE DEF v
    <3>2. v # <<Unset>>
      BY <3>1, TextIsSet
    <3>. QED
      BY <3>2 DEF v
  <2>4. ReadValue(s, 1, env) = env[name]
    BY <1>2, <2>3, Zenon DEF ReadValue
  <2>. DEFINE v == env[name]
  <2>5. v \in Seq(Tok \ {Mask})
    BY <2>2
  <2>. HIDE DEF v
  <2>6. UnmaskedOf[v] = v
    BY <1>0, <2>5, UnmaskedKeeps
  <2>. QED
    BY <2>1, <2>4, <2>6, Zenon DEF v
<1>3. CASE ~taken
  <2>1. Replacement(w, 1, env) = MaskedOf[d]
    <3>1. (IsSet(env, name) => env[name] = <<>>) /\ ~(IsSet(env, name) /\ env[name] # <<>>)
      BY <1>3
    <3>. QED
      BY <3>1, Zenon DEF Replacement
  <2>2. ReadValue(s, 1, env) = ReplaceEach(d, <<Dollar, Dollar>>, <<Dollar>>)
    <3>1. CASE IsSet(env, name)
      <4>1. env[name] = <<>>
        BY <1>3, <3>1
      <4>. QED
        BY <3>1, <4>1, Zenon DEF ReadValue, Dollar
    <3>2. CASE ~IsSet(env, name)
      BY <3>2, Zenon DEF ReadValue, Dollar
    <3>. QED
      BY <3>1, <3>2
  <2>. QED
    BY <1>1, <2>1, <2>2, Zenon
<1>. QED
  BY <1>2, <1>3

\* interpolateString reads a text once from the left: every escape, reference
\* and token is worked at once, in one go, and what it is worked into is not
\* looked at again.
LEMMA ReadAtOnce ==
  ASSUME NEW env, IsEnv(env)
  PROVE  \A s \in Seq(Tok \ {Mask}) :
            UnmaskedOf[Substituted(MaskedOf[s], env)] = ReadOnce(s, env)
<1>. DEFINE T == Tok \ {Mask}
            F(s) == UnmaskedOf[Substituted(MaskedOf[s], env)]
            S == {s \in Seq(T) : F(s) = ReadOnce(s, env)}
<1>0. /\ HasMarks(T) /\ Dollar \in Tok /\ Mask \in Tok /\ Mask # Dollar
      /\ ReplacesTwo(Tok, Dollar, Dollar, <<Mask>>, MaskedOf)
      /\ ReplacesOne(Tok, Mask, <<Dollar>>, UnmaskedOf)
      /\ Seq(T) \subseteq Seq(Tok) /\ <<Dollar>> \in Seq(Tok) /\ Brace \in Tok
      /\ HasMarks(Tok)
  <2>1. T \subseteq Tok
    OBVIOUS
  <2>2. Seq(T) \subseteq Seq(Tok)
    BY <2>1, SeqMonotonic
  <2>. QED
    BY <2>2, TokMarks, MaskLaws
<1>1. /\ ReadsText(env)
      /\ Substituted(<<>>, env) = <<>>
      /\ \A x \in Tok, r \in Seq(Tok) :
            ~MatchesAt(<<x>> \o r, 1)
            => Substituted(<<x>> \o r, env) = <<x>> \o Substituted(r, env)
      /\ \A p, r \in Seq(Tok) :
            p \o r # <<>> /\ MatchesAt(p \o r, 1) /\ MatchEnd(p \o r, 1) = Len(p)
            => Substituted(p \o r, env) = Replacement(p \o r, 1, env) \o Substituted(r, env)
  BY ReadOnceLaws, SubstitutedLaws
<1>. HIDE DEF T
<1>2. ASSUME NEW r \in Seq(T)
      PROVE  /\ r \in Seq(Tok) /\ MaskedOf[r] \in Seq(Tok)
             /\ Substituted(MaskedOf[r], env) \in Seq(Tok) /\ F(r) \in Seq(Tok)
  <2>1. r \in Seq(Tok) /\ MaskedOf[r] \in Seq(Tok)
    BY <1>0, MaskedText
  <2>2. Substituted(MaskedOf[r], env) \in Seq(Tok)
    BY <2>1, SubstitutedType
  <2>. QED
    BY <1>0, <2>1, <2>2, Zenon DEF ReplacesOne
\* A text that begins with a match p, masked as q.
<1>3. ASSUME NEW s \in Seq(T), s # <<>>, NEW r \in Seq(T), Len(r) < Len(s), r \in S,
             ~HasAt(s, 1, <<Dollar, Dollar>>),
             MatchesAt(s, 1), NEW p \in Seq(Tok), Joins(s, p, r), MatchEnd(s, 1) = Len(p),
             MaskedOf[s] # <<>>, MatchesAt(MaskedOf[s], 1),
             NEW q \in Seq(Tok), Joins(MaskedOf[s], q, MaskedOf[r]),
             MatchEnd(MaskedOf[s], 1) = Len(q),
             UnmaskedOf[Replacement(MaskedOf[s], 1, env)] = ReadValue(s, 1, env)
      PROVE  s \in S
  <2>. DEFINE w == MaskedOf[s]
              v == MaskedOf[r]
              a == Replacement(w, 1, env)
              b == Substituted(v, env)
  <2>1. w \in Seq(Tok) /\ v \in Seq(Tok) /\ b \in Seq(Tok) /\ s \in Seq(Tok) /\ r \in Seq(Tok)
    BY <1>2
  <2>2. w # <<>> /\ w = q \o v /\ s = p \o r /\ MatchesAt(w, 1) /\ MatchEnd(w, 1) = Len(q)
    BY <1>3 DEF Joins
  <2>. HIDE DEF w, v, S
  <2>3. ReadOnce(s, env) = ReadValue(s, 1, env) \o ReadOnce(r, env)
    BY <1>1, <1>3, <2>1, <2>2, Zenon DEF ReadsText
  <2>4. Substituted(w, env) = a \o b
    BY <1>1, <2>1, <2>2, Zenon
  <2>5. a \in Seq(Tok)
    <3>1. 1 \in 1 .. Len(w)
      BY <2>1, <2>2
    <3>. QED
      BY <2>1, <2>2, <3>1, ReplacementType
  <2>. HIDE DEF a, b
  <2>6. UnmaskedOf[a \o b] = UnmaskedOf[a] \o UnmaskedOf[b]
    <3>1. \A x \in Seq(Tok) : UnmaskedOf[x \o b] = UnmaskedOf[x] \o UnmaskedOf[b]
      <4>1. PartsBefore(Tok, UnmaskedOf, b, UnmaskedOf[b])
        BY <1>0, <2>1, UnmaskedApart
      <4>. QED
        BY <4>1, Zenon DEF PartsBefore
    <3>. QED
      BY <2>5, <3>1, Zenon
  <2>7. UnmaskedOf[b] = ReadOnce(r, env)
    BY <1>3, Zenon DEF S, b, v
  <2>8. UnmaskedOf[a] = ReadValue(s, 1, env)
    BY <1>3, Zenon DEF a, w
  <2>9. F(s) = ReadOnce(s, env)
    BY <2>3, <2>4, <2>6, <2>7, <2>8, Zenon DEF w
  <2>. QED
    BY <2>9, Zenon DEF S
<1>4. ASSUME NEW s \in Seq(T), \A r \in Seq(T) : Len(r) < Len(s) => r \in S PROVE s \in S
  <2>1. CASE s = <<>>
    <3>1. MaskedOf[<<>>] = <<>> /\ UnmaskedOf[<<>>] = <<>>
      BY <1>0, Zenon DEF ReplacesOne, ReplacesTwo
    <3>2. F(<<>>) = ReadOnce(<<>>, env)
      BY <1>1, <3>1, Zenon DEF ReadsText
    <3>. QED
      BY <2>1, <3>2, Zenon
  <2>2. CASE s # <<>> /\ MatchesAt(s, 1)
    <3>1. 1 \in 1 .. Len(s) /\ s \in Seq(Tok)
      BY <1>2, <2>2
    <3>2. ~HasAt(s, 1, <<Dollar, Dollar>>)
      <4>1. IsMatch(s, 1)
        BY <2>2, <3>1, MatchesMeans
      <4>2. s[1 + 1] # Dollar
        BY <4>1, Marks, Zenon DEF IsMatch
      <4>. QED
        BY <3>1, <4>2, HasTwoAt
    <3>3. PICK n \in T \cap Name : \/ \E r \in Seq(T) : IsPlain(s, n, r)
                                   \/ \E d \in Seq(T \ {Brace}), r \in Seq(T) :
                                         IsDefaulted(s, n, d, r)
      BY <1>0, <2>2, MatchForm
    <3>4. n \in T /\ n \in Name /\ n \in Tok
      BY <3>3 DEF T
    <3>5. ASSUME NEW r \in Seq(T), IsPlain(s, n, r) PROVE s \in S
      <4>. DEFINE w == MaskedOf[s]
                  v == MaskedOf[r]
      <4>1. r \in Seq(Tok) /\ v \in Seq(Tok)
        BY <1>2
      <4>2. IsPlain(w, n, v)
        BY <3>4, <3>5, <4>1, MaskedPlain
      <4>3. /\ Len(r) < Len(s) /\ s[1 + 2] = n /\ ~HasDefault(s, 1)
            /\ MatchEnd(s, 1) = 4
            /\ \E p \in Seq(Tok) : Joins(s, p, r) /\ Len(p) = 4
        BY <1>0, <3>4, <3>5, <4>1, PlainMatch
      <4>. HIDE DEF w, v
      <4>4. /\ w # <<>> /\ w[1 + 2] = n /\ ~HasDefault(w, 1)
            /\ MatchesAt(w, 1) /\ MatchEnd(w, 1) = 4
            /\ \E q \in Seq(Tok) : Joins(w, q, v) /\ Len(q) = 4
        BY <1>0, <3>4, <4>1, <4>2, PlainMatch
      <4>5. UnmaskedOf[Replacement(w, 1, env)] = ReadValue(s, 1, env)
        BY <4>3, <4>4, ValueOfPlain
      <4>6. PICK p \in Seq(Tok), q \in Seq(Tok) :
               Joins(s, p, r) /\ MatchEnd(s, 1) = Len(p)
               /\ Joins(w, q, v) /\ MatchEnd(w, 1) = Len(q)
        BY <4>3, <4>4
      <4>7. r \in S
        BY <1>4, <4>3
      <4>. QED
        BY <1>3, <2>2, <3>2, <4>3, <4>4, <4>5, <4>6, <4>7 DEF w, v
    <3>6. ASSUME NEW d \in Seq(T \ {Brace}), NEW r \in Seq(T), IsDefaulted(s, n, d, r)
          PROVE  s \in S
      <4>. DEFINE w == MaskedOf[s]
                  v == MaskedOf[r]
                  e == MaskedOf[d]
      <4>0. d \in Seq(Tok \ {Brace}) /\ d \in Seq(Tok \ {Mask})
        <5>1. T \ {Brace} \subseteq Tok \ {Brace} /\ T \ {Brace} \subseteq Tok \ {Mask}
          BY DEF T
        <5>. QED
          BY <5>1, SeqMonotonic
      <4>1. r \in Seq(Tok) /\ v \in Seq(Tok)
        BY <1>2
      <4>2. IsDefaulted(w, n, e, v) /\ e \in Seq(Tok \ {Brace})
        BY <3>4, <3>6, <4>0, <4>1, MaskedDefaulted
      <4>3. /\ Len(r) < Len(s) /\ s[1 + 2] = n /\ HasDefault(s, 1) /\ DefaultAt(s, 1) = d
            /\ MatchEnd(s, 1) = Len(d) + 6
            /\ \E p \in Seq(Tok) : Joins(s, p, r) /\ Len(p) = Len(d) + 6
        <5>1. DefaultedShape(Tok, s, n, d, r)
          BY <1>0, <3>4, <3>6, <4>0, <4>1, DefaultedMatch
        <5>. QED
          BY <5>1, Zenon DEF DefaultedShape
      <4>. HIDE DEF w, v, e
      <4>4. /\ w # <<>> /\ w[1 + 2] = n /\ HasDefault(w, 1) /\ DefaultAt(w, 1) = e
            /\ MatchesAt(w, 1) /\ MatchEnd(w, 1) = Len(e) + 6
            /\ \E q \in Seq(Tok) : Joins(w, q, v) /\ Len(q) = Len(e) + 6
        <5>1. /\ HasMarks(Tok) /\ n \in Tok /\ n \in Name /\ v \in Seq(Tok)
              /\ IsDefaulted(w, n, e, v) /\ e \in Seq(Tok \ {Brace})
          BY <1>0, <3>4, <4>1, <4>2
        <5>2. DefaultedShape(Tok, w, n, e, v)
          BY <5>1, DefaultedMatch
        <5>. QED
          BY <5>2, Zenon DEF DefaultedShape
      <4>5. UnmaskedOf[Replacement(w, 1, env)] = ReadValue(s, 1, env)
        BY <4>0, <4>3, <4>4, ValueOfDefaulted DEF e
      <4>6. PICK p \in Seq(Tok), q \in Seq(Tok) :
               Joins(s, p, r) /\ MatchEnd(s, 1) = Len(p)
               /\ Joins(w, q, v) /\ MatchEnd(w, 1) = Len(q)
        BY <4>3, <4>4
      <4>7. r \in S
        BY <1>4, <4>3
      <4>. QED
        BY <1>3, <2>2, <3>2, <4>3, <4>4, <4>5, <4>6, <4>7 DEF w, v
    <3>. QED
      BY <3>3, <3>5, <3>6
  <2>3. CASE s # <<>> /\ ~MatchesAt(s, 1)
    <3>1. PICK x \in T, r \in Seq(T) : s = <<x>> \o r /\ Len(r) < Len(s)
      BY <2>3, HeadAndRest
    <3>2. x \in Tok /\ x # Mask /\ r \in Seq(Tok) /\ s \in Seq(Tok) /\ 1 \in 1 .. Len(s)
          /\ (r # <<>> => Len(s) >= 2) /\ s[1] = x /\ (r # <<>> => s[2] = r[1])
          /\ (r = <<>> => Len(s) = 1)
      BY <1>0, <3>1 DEF T
    <3>3. CASE x = Dollar /\ r # <<>> /\ r[1] = Dollar
      <4>1. PICK z \in T, q \in Seq(T) : r = <<z>> \o q /\ Len(q) < Len(r) /\ z = r[1]
        BY <3>3, HeadAndRest
      <4>. DEFINE p == <<Dollar, Dollar>>
                  m == <<Mask>>
                  v == MaskedOf[q]
                  b == Substituted(v, env)
                  u == m \o v
      <4>2. s = p \o q /\ p \in Seq(Tok) /\ Len(p) = 2 /\ q \in Seq(Tok) /\ Len(q) < Len(s)
        BY <1>0, <3>1, <3>3, <4>1
      <4>3. HasAt(s, 1, p)
        <5>1. 1 + 1 <= Len(s) /\ s[1] = Dollar /\ s[1 + 1] = Dollar
          BY <3>2, <3>3
        <5>. QED
          BY <3>2, <5>1, HasTwoAt
      <4>. HIDE DEF p
      <4>4. ReadOnce(s, env) = <<Dollar>> \o ReadOnce(q, env)
        BY <1>1, <2>3, <4>2, <4>3, Zenon DEF ReadsText, p
      <4>5. MaskedOf[s] = m \o v
        BY <1>0, <4>2, Zenon DEF ReplacesTwo, p
      <4>6. v \in Seq(Tok) /\ b \in Seq(Tok)
        BY <1>2
      <4>7. ~MatchesAt(u, 1)
        <5>1. u \in Seq(Tok) /\ 1 \in 1 .. Len(u) /\ u[1] = Mask
          BY <1>0, <4>6
        <5>. HIDE DEF u
        <5>2. ~IsMatch(u, 1)
          BY <1>0, <5>1, Zenon DEF IsMatch
        <5>. QED
          BY <5>1, <5>2, MatchesMeans
      <4>8. Substituted(u, env) = m \o b
        BY <1>0, <1>1, <4>6, <4>7, Zenon
      <4>9. UnmaskedOf[m \o b] = <<Dollar>> \o UnmaskedOf[b]
        BY <1>0, <4>6, Zenon DEF ReplacesOne
      <4>10. F(q) = ReadOnce(q, env)
        BY <1>4, <4>2, Zenon
      <4>11. F(s) = ReadOnce(s, env)
        BY <4>4, <4>5, <4>8, <4>9, <4>10, Zenon
      <4>. QED
        BY <4>11, Zenon
    <3>4. CASE x = Dollar /\ r # <<>> => r[1] # Dollar
      <4>. DEFINE v == MaskedOf[r]
                  b == Substituted(v, env)
                  w == <<x>> \o v
      <4>1. ~HasAt(s, 1, <<Dollar, Dollar>>)
        <5>1. ~(1 + 1 <= Len(s) /\ s[1] = Dollar /\ s[1 + 1] = Dollar)
          BY <3>2, <3>4
        <5>. QED
          BY <3>2, <5>1, HasTwoAt
      <4>2. ReadOnce(s, env) = <<x>> \o ReadOnce(r, env)
        BY <1>1, <2>3, <3>1, <3>2, <4>1, Zenon DEF ReadsText
      <4>3. MaskedOf[s] = w
        BY <1>0, <3>1, <3>2, <3>4, Zenon DEF ReplacesTwo
      <4>4. v \in Seq(Tok) /\ b \in Seq(Tok)
        BY <1>2
      <4>5. ~MatchesAt(w, 1)
        <5>1. w # <<>>
          BY <4>4
        <5>. HIDE DEF w
        <5>2. MaskedOf[s] # <<>>
          BY <4>3, <5>1
        <5>3. s \in Seq(Tok \ {Mask})
          BY DEF T
        <5>4. ~MatchesAt(MaskedOf[s], 1)
          BY <2>3, <5>2, <5>3, MatchBefore
        <5>. QED
          BY <4>3, <5>4, Zenon
      <4>6. Substituted(w, env) = <<x>> \o b
        BY <1>1, <3>2, <4>4, <4>5, Zenon
      <4>7. UnmaskedOf[<<x>> \o b] = <<x>> \o UnmaskedOf[b]
        BY <1>0, <3>2, <4>4, Zenon DEF ReplacesOne
      <4>8. F(r) = ReadOnce(r, env)
        BY <1>4, <3>1, Zenon
      <4>9. F(s) = ReadOnce(s, env)
        BY <4>2, <4>3, <4>6, <4>7, <4>8, Zenon
      <4>. QED
        BY <4>9, Zenon
    <3>. QED
      BY <3>3, <3>4
  <2>. QED
    BY <2>1, <2>2, <2>3
<1>5. Seq(T) \subseteq S
  <2>. HIDE DEF S
  <2>. QED
    BY <1>4, TextInduction, Zenon
<1>. QED
  BY <1>5, Zenon DEF T

-----------------------------------------------------------------------------
(* The reference grammar.                                                  *)

\* A text with a reference has the brace that closes it.
LEMMA RefHasBrace ==
  ASSUME NEW T, NEW s \in Seq(T), HasRef(s)
  PROVE  \E j \in 1 .. Len(s) : s[j] = Brace
<1>1. PICK i \in DOMAIN s : IsRefAt(s, i)
  BY Zenon DEF HasRef
<1>. DEFINE k == i + 4
<1>2. IndexFrom(s, k, Brace) # 0
  BY <1>1, Zenon DEF IsRefAt, Brace
<1>3. k \in Nat \ {0}
  OBVIOUS
<1>4. \E j \in k .. Len(s) : s[j] = Brace
  <2>. HIDE DEF k
  <2>. QED
    BY <1>2, <1>3, FirstOccurrence
<1>. QED
  BY <1>3, <1>4

\* Between the braces of a whole reference there is no closing brace.
LEMMA InnerHasNoBrace ==
  ASSUME NEW T, NEW s \in Seq(T), IsWholeRef(s)
  PROVE  Inner(s) \in Seq(T) /\ \A j \in 1 .. Len(Inner(s)) : Inner(s)[j] # Brace
<1>1. IsRefAt(s, 1) /\ RefEnd(s, 1) = Len(s)
  BY Zenon DEF IsWholeRef
<1>2. IndexFrom(s, 1 + 4, Brace) = Len(s) /\ IndexFrom(s, 1 + 4, Brace) # 0
  BY <1>1, Zenon DEF IsRefAt, RefEnd, Brace
<1>3. IndexFrom(s, 5, Brace) = Len(s) /\ IndexFrom(s, 5, Brace) # 0 /\ 5 \in Nat \ {0}
  BY <1>2
<1>4. Len(s) \in 5 .. Len(s) /\ \A j \in 5 .. Len(s) - 1 : s[j] # Brace
  BY <1>3, FirstOccurrence
<1>5. Len(s) \in Nat /\ Len(s) >= 5
  BY <1>4
<1>6. /\ SubSeq(s, 5, Len(s) - 1) \in Seq(T)
      /\ Len(SubSeq(s, 5, Len(s) - 1)) = Len(s) - 5
      /\ \A j \in 1 .. Len(s) - 5 : SubSeq(s, 5, Len(s) - 1)[j] = s[j + 4]
  <2>. DEFINE last == Len(s) - 1
  <2>1. last \in Int /\ last <= Len(s) /\ last >= 4 /\ last - 4 = Len(s) - 5
    BY <1>5
  <2>. HIDE DEF last
  <2>2. /\ SubSeq(s, 5, last) \in Seq(T)
        /\ Len(SubSeq(s, 5, last)) = last - 4
        /\ \A j \in 1 .. last - 4 : SubSeq(s, 5, last)[j] = s[j + 4]
    BY <1>5, <2>1
  <2>. QED
    BY <2>1, <2>2 DEF last
<1>7. \A j \in 1 .. Len(s) - 5 : j + 4 \in 5 .. Len(s) - 1
  BY <1>5
<1>. QED
  BY <1>4, <1>6, <1>7 DEF Inner

\* The default of a text is a piece of it, or not there.
LEMMA DefaultOf ==
  ASSUME NEW T, NEW s \in Seq(T)
  PROVE  \/ SplitDefault(s).tail = None
         \/ \E i \in 1 .. Len(s) : SplitDefault(s).tail = SubSeq(s, i + 2, Len(s))
<1>. DEFINE flags == [j \in DOMAIN s |-> IsDefaultAt(s, j)]
            i == SelectInSeq(flags, LAMBDA b : b)
            I == {j \in 1 .. Len(flags) : flags[j]}
<1>1. SplitDefault(s) = IF i = 0 THEN Whole(s) ELSE Cut(s, i, 2)
  BY DEF SplitDefault
<1>2. CASE i = 0
  BY <1>1, <1>2 DEF Whole
<1>3. CASE i # 0
  <2>1. Len(flags) = Len(s) /\ Len(s) \in Nat
    OBVIOUS
  <2>2. i = IF I # {} THEN Min(I) ELSE 0
    BY DEF SelectInSeq, SelectInSubSeq
  <2>3. I # {} /\ i = Min(I) /\ I \subseteq Nat
    BY <1>3, <2>1, <2>2
  <2>4. i \in I
    <3>. HIDE DEF I, i
    <3>. QED
      BY <2>3, SmallestNumber DEF Min
  <2>5. i \in 1 .. Len(s)
    BY <2>1, <2>4
  <2>. HIDE DEF i
  <2>6. SplitDefault(s) = Cut(s, i, 2)
    BY <1>1, <1>3
  <2>7. Cut(s, i, 2).tail = SubSeq(s, i + 2, Len(s))
    BY DEF Cut
  <2>. QED
    BY <2>5, <2>6, <2>7
<1>. QED
  BY <1>2, <1>3

\* What ends a text without a closing brace has no reference.
LEMMA EndHasNoRef ==
  ASSUME NEW T, NEW s \in Seq(T), NEW i \in 1 .. Len(s),
         \A j \in 1 .. Len(s) : s[j] # Brace
  PROVE  ~HasRef(SubSeq(s, i + 2, Len(s)))
<1>. DEFINE d == SubSeq(s, i + 2, Len(s))
<1>1. Len(s) \in Nat
  OBVIOUS
<1>2. d \in Seq(T) /\ \A j \in 1 .. Len(d) : j + i + 1 \in 1 .. Len(s) /\ d[j] = s[j + i + 1]
  BY <1>1
<1>. HIDE DEF d
<1>3. ~HasRef(d)
  BY <1>2, RefHasBrace
<1>. QED
  BY <1>3 DEF d

\* What convertString makes of a text: itself, without a reference, or a
\* reference whose default holds none.
Converted(c) ==
  \/ c.kind = "text" /\ c.text \in Seq(Tok) /\ ~HasRef(c.text)
  \/ /\ c.kind = "ref"
     /\ c.ref.ok => c.ref.default = None \/ ~HasRef(c.ref.default)

LEMMA ConvertStringMakes ==
  ASSUME NEW s \in Seq(Tok)
  PROVE  Converted(ConvertString(s))
<1>1. CASE ~HasRef(s)
  <2>0. ~IsWholeRef(s)
    <3>1. s # <<>> => 1 \in DOMAIN s
      OBVIOUS
    <3>. QED
      BY <1>1, <3>1, Zenon DEF IsWholeRef, HasRef
  <2>1. ConvertString(s) = [kind |-> "text", text |-> s]
    BY <1>1, <2>0, Zenon DEF ConvertString
  <2>2. ConvertString(s).kind = "text" /\ ConvertString(s).text = s
    BY <2>1
  <2>. QED
    BY <1>1, <2>2, Zenon DEF Converted
<1>2. CASE HasRef(s) /\ IsWholeRef(s)
  <2>1. ConvertString(s) = [kind |-> "ref", ref |-> ParseSecretRef(Inner(s))]
    BY <1>2 DEF ConvertString
  <2>. DEFINE p == ParseSecretRef(Inner(s))
  <2>2. p.ok => p.default = SplitDefault(Inner(s)).tail
    BY DEF ParseSecretRef, Failed
  <2>3. p.ok => p.default = None \/ ~HasRef(p.default)
    BY <1>2, <2>2, InnerHasNoBrace, DefaultOf, EndHasNoRef
  <2>. HIDE DEF p
  <2>4. ConvertString(s).kind = "ref" /\ ConvertString(s).ref = p
    BY <2>1 DEF p
  <2>. QED
    BY <2>3, <2>4, Zenon DEF Converted
<1>3. CASE HasRef(s) /\ ~IsWholeRef(s)
  <2>1. ConvertString(s) = [kind |-> "ref", ref |-> Failed]
    BY <1>3, Zenon DEF ConvertString
  <2>2. ConvertString(s).kind = "ref" /\ ConvertString(s).ref = Failed
    BY <2>1
  <2>3. ~Failed.ok
    BY DEF Failed
  <2>. QED
    BY <2>2, <2>3, Zenon DEF Converted
<1>. QED
  BY <1>1, <1>2, <1>3

-----------------------------------------------------------------------------
(* No reference is served.                                                 *)

\* A leaf on its way: what it is at a stage says which stages it has passed.
Sound ==
  /\ leaf \in Cases
  /\ stage \in {"interpolate", "convert", "resolve", "done"}
  /\ node.kind = "text" => node.text \in Seq(Tok)
  /\ stage = "convert" => node.kind = "text"
  /\ stage = "interpolate" => leaf.source \in {"file", "templated"}
  /\ stage = "interpolate" /\ leaf.source = "file" => node.kind = "text"
  /\ stage # "done" => answer = None
  /\ node.kind = "ref" => node.ref.default = None \/ ~HasRef(node.ref.default)
  /\ stage = "resolve" /\ leaf.source # "templated" /\ node.kind = "text" => ~HasRef(node.text)

Inv == Sound /\ NoReferenceServed

LEMMA CaseType ==
  ASSUME NEW c \in Cases
  PROVE  /\ c.source \in {"file", "dict", "templated"}
         /\ c.text \in Seq(Tok)
         /\ IsEnv(c.env)
<1>1. c.text \in Seq(Char) /\ Char \subseteq Tok
  BY CasesAssumption DEF Tok
<1>2. c.text \in Seq(Tok)
  BY <1>1
<1>. QED
  BY <1>2, CasesAssumption DEF IsEnv

LEMMA InitSound == Init => Inv
<1>. SUFFICES ASSUME Init PROVE Inv
  OBVIOUS
<1>1. leaf \in Cases /\ leaf.text \in Seq(Tok) /\ leaf.source \in {"file", "dict", "templated"}
  BY CaseType DEF Init
<1>2. node = [kind |-> "text", text |-> leaf.text] /\ answer = None
  BY DEF Init, TextNode
<1>3. stage = IF leaf.source = "file" THEN "interpolate" ELSE "convert"
  BY DEF Init
<1>4. Sound
  BY <1>1, <1>2, <1>3 DEF Sound
<1>5. stage # "done"
  BY <1>3
<1>. QED
  BY <1>4, <1>5 DEF Inv, NoReferenceServed, AnswersText

\* A failure is no text.
LEMMA FailSound ==
  ASSUME Inv, NEW reason, Fail(reason)
  PROVE  Inv'
<1>1. answer' = [failure |-> reason] /\ stage' = "done" /\ leaf' = leaf /\ node' = node
  BY DEF Fail, Answer
<1>2. Sound'
  BY <1>1 DEF Inv, Sound
<1>3. "kind" \notin DOMAIN answer'
  BY <1>1
<1>. QED
  BY <1>2, <1>3 DEF Inv, NoReferenceServed, AnswersText

LEMMA InterpolateSound == Inv /\ Interpolate => Inv'
<1>. SUFFICES ASSUME Inv, Interpolate PROVE Inv'
  OBVIOUS
<1>1. CASE /\ node.kind = "text"
           /\ node' = TextNode(InterpolateString(node.text, leaf.env))
           /\ stage' = IF leaf.source = "file" THEN "convert" ELSE "resolve"
           /\ UNCHANGED <<leaf, answer>>
  <2>1. InterpolateString(node.text, leaf.env) \in Seq(Tok)
    BY <1>1, CaseType, Interpolates DEF Inv, Sound
  <2>2. node'.kind = "text" /\ node'.text = InterpolateString(node.text, leaf.env)
    BY <1>1 DEF TextNode
  <2>3. stage = "interpolate" /\ leaf.source \in {"file", "templated"}
    BY DEF Interpolate, Inv, Sound
  <2>4. Sound'
    BY <1>1, <2>1, <2>2, <2>3 DEF Inv, Sound
  <2>5. stage' # "done"
    BY <1>1
  <2>. QED
    BY <2>4, <2>5 DEF Inv, NoReferenceServed, AnswersText
<1>2. CASE Fail("env_unresolved")
  BY <1>2, FailSound
<1>3. CASE /\ node.kind = "ref" /\ stage = "interpolate" /\ stage' = "resolve"
           /\ UNCHANGED <<leaf, node, answer>>
  <2>1. Sound'
    BY <1>3 DEF Inv, Sound
  <2>. QED
    BY <1>3, <2>1 DEF Inv, NoReferenceServed, AnswersText
<1>. QED
  BY <1>1, <1>2, <1>3 DEF Interpolate

LEMMA ConvertSound == Inv /\ Convert => Inv'
<1>. SUFFICES ASSUME Inv, Convert PROVE Inv'
  OBVIOUS
<1>. DEFINE c == ConvertString(node.text)
<1>1. Converted(c)
  BY ConvertStringMakes DEF Convert, Inv, Sound
<1>2. CASE c.kind = "ref" /\ ~c.ref.ok
  BY <1>2, FailSound DEF Convert
<1>3. CASE ~(c.kind = "ref" /\ ~c.ref.ok)
  <2>1. /\ node' = c /\ UNCHANGED <<leaf, answer>> /\ stage = "convert"
        /\ stage' = IF leaf.source = "templated" THEN "interpolate" ELSE "resolve"
    BY <1>3 DEF Convert
  <2>. HIDE DEF c
  <2>2. Sound'
    BY <1>1, <1>3, <2>1 DEF Inv, Sound, Converted
  <2>3. stage' # "done"
    BY <2>1
  <2>. QED
    BY <2>2, <2>3 DEF Inv, NoReferenceServed, AnswersText
<1>. QED
  BY <1>2, <1>3

LEMMA UnresolvedSound ==
  ASSUME Inv, node.kind = "ref", Unresolved(node.ref)
  PROVE  Inv'
<1>1. CASE node.ref.default = None
  BY <1>1, FailSound DEF Unresolved
<1>2. CASE node.ref.default # None
  <2>1. answer' = TextNode(node.ref.default) /\ stage' = "done" /\ leaf' = leaf /\ node' = node
    BY <1>2 DEF Unresolved, Answer
  <2>2. Sound'
    BY <2>1 DEF Inv, Sound
  <2>3. ~HasRef(node.ref.default)
    BY <1>2 DEF Inv, Sound
  <2>4. answer'.text = node.ref.default
    BY <2>1 DEF TextNode
  <2>5. NoReferenceServed'
    BY <2>3, <2>4 DEF NoReferenceServed
  <2>. QED
    BY <2>2, <2>5 DEF Inv
<1>. QED
  BY <1>1, <1>2

LEMMA ResolveSound == Inv /\ Resolve => Inv'
<1>. SUFFICES ASSUME Inv, Resolve PROVE Inv'
  OBVIOUS
<1>0. stage = "resolve"
  BY DEF Resolve
<1>1. CASE node.kind = "text" /\ Answer(node)
  <2>1. answer' = node /\ stage' = "done" /\ leaf' = leaf /\ node' = node
    BY <1>1 DEF Answer
  <2>2. Sound'
    BY <2>1 DEF Inv, Sound
  <2>3. leaf.source = "templated" \/ ~HasRef(node.text)
    BY <1>0, <1>1 DEF Inv, Sound
  <2>4. NoReferenceServed'
    BY <2>1, <2>3 DEF NoReferenceServed
  <2>. QED
    BY <2>2, <2>4 DEF Inv
<1>2. CASE node.kind = "ref" /\ Unresolved(node.ref)
  BY <1>2, UnresolvedSound
<1>3. CASE /\ node.kind = "ref" /\ node.ref.scheme = <<"env">>
           /\ EnvResolve(node.ref.path, leaf.env) # None
           /\ Answer(TextNode(EnvResolve(node.ref.path, leaf.env)))
  <2>1. PICK name \in DOMAIN leaf.env : node.ref.path = <<name>>
    BY <1>3 DEF EnvResolve
  <2>2. EnvResolve(node.ref.path, leaf.env) = leaf.env[name]
    BY <2>1 DEF EnvResolve
  <2>3. answer' = TextNode(leaf.env[name]) /\ stage' = "done" /\ leaf' = leaf /\ node' = node
    BY <1>3, <2>2 DEF Answer
  <2>4. Sound'
    BY <2>3 DEF Inv, Sound
  <2>5. answer'.text = leaf.env[name]
    BY <2>3 DEF TextNode
  <2>6. NoReferenceServed'
    BY <1>3, <2>1, <2>3, <2>5 DEF NoReferenceServed
  <2>. QED
    BY <2>4, <2>6 DEF Inv
<1>4. CASE \E request : Answer([kind |-> "secret", request |-> request])
  <2>1. PICK request : Answer([kind |-> "secret", request |-> request])
    BY <1>4
  <2>2. /\ answer' = [kind |-> "secret", request |-> request]
        /\ stage' = "done" /\ leaf' = leaf /\ node' = node
    BY <2>1 DEF Answer
  <2>3. Sound'
    BY <2>2 DEF Inv, Sound
  <2>4. answer'.kind # "text"
    BY <2>2
  <2>. QED
    BY <2>3, <2>4 DEF Inv, NoReferenceServed, AnswersText
<1>. QED
  BY <1>1, <1>2, <1>3, <1>4 DEF Resolve

LEMMA NextSound == Inv /\ [Next]_vars => Inv'
<1>. SUFFICES ASSUME Inv, [Next]_vars PROVE Inv'
  OBVIOUS
<1>1. CASE Interpolate
  BY <1>1, InterpolateSound
<1>2. CASE Convert
  BY <1>2, ConvertSound
<1>3. CASE Resolve
  BY <1>3, ResolveSound
<1>4. CASE UNCHANGED vars
  <2>1. leaf' = leaf /\ stage' = stage /\ node' = node /\ answer' = answer
    BY <1>4 DEF vars
  <2>. QED
    BY <2>1 DEF Inv, Sound, NoReferenceServed, AnswersText
<1>. QED
  BY <1>1, <1>2, <1>3, <1>4 DEF Next, Done

\* Whatever a file or a dict says, and whatever its variables hold: a text
\* that is served with a reference in it is the value of a variable that the
\* env scheme read; no text, no default and no interpolated piece slips one
\* past convertString (secret_grammar.go:215-223).
THEOREM NoReferenceServedHolds == Spec => []NoReferenceServed
<1>1. Inv => NoReferenceServed
  BY DEF Inv
<1>. QED
  BY InitSound, NextSound, <1>1, PTL DEF Spec

-----------------------------------------------------------------------------
(* An escaped text is served literally.                                    *)

\* The text that is meant where every dollar sign of the leaf is doubled.
Single == ReplaceEach(leaf.text, <<Dollar, Dollar>>, <<Dollar>>)
IsEscaped == leaf.source = "file" /\ leaf.text = Doubled(Single)

\* Where it stands at each stage.
Literal ==
  IsEscaped =>
    /\ stage = "interpolate" => node = TextNode(leaf.text)
    /\ stage = "convert" => node = TextNode(Single)
    /\ stage = "resolve" => node = ConvertString(Single)
    /\ stage = "done" => (node = TextNode(Single) /\ answer = node <=> ~HasRef(Single))

LitInv == Inv /\ Literal

\* The escape of a text is undone by the interpolation, in any environment.
LEMMA EscapeUndone ==
  ASSUME Sound
  PROVE  /\ Single \in Seq(Char)
         /\ IsEscaped => /\ InterpolateString(leaf.text, leaf.env) = Single
                         /\ Interpolable(leaf.text, leaf.env)
<1>1. leaf.text \in Seq(Char) /\ IsEnv(leaf.env)
  BY CasesAssumption, CaseType DEF Sound
<1>2. Single \in Seq(Char)
  <2>. DEFINE D == [t \in Seq(Char) |-> ReplaceEach(t, <<Dollar, Dollar>>, <<Dollar>>)]
  <2>1. Dollar \in Char /\ <<Dollar>> \in Seq(Char)
    BY Marks
  <2>2. ReplacesTwo(Char, Dollar, Dollar, <<Dollar>>, D)
    BY <2>1, ReplaceTwoLaws
  <2>3. D[leaf.text] = Single
    BY <1>1, Zenon DEF Single
  <2>. HIDE DEF D
  <2>. QED
    BY <1>1, <2>2, <2>3, Zenon DEF ReplacesTwo
<1>3. ASSUME IsEscaped
      PROVE  /\ InterpolateString(leaf.text, leaf.env) = Single
             /\ Interpolable(leaf.text, leaf.env)
  <2>1. InterpolateString(leaf.text, leaf.env) = Single
    BY <1>1, <1>2, <1>3, DoubledInterpolates DEF IsEscaped
  <2>2. ~Contains(Single, Unset)
    BY <1>2, Marks DEF Contains
  <2>. QED
    BY <2>1, <2>2, Zenon DEF Interpolable
<1>. QED
  BY <1>2, <1>3

\* A text is converted to itself exactly when there is no reference in it.
LEMMA ConvertedAsText ==
  ASSUME NEW s \in Seq(Tok)
  PROVE  /\ ~HasRef(s) => ConvertString(s) = TextNode(s)
         /\ HasRef(s) => ConvertString(s).kind = "ref"
<1>1. ASSUME ~HasRef(s) PROVE ConvertString(s) = TextNode(s)
  <2>1. s # <<>> => 1 \in DOMAIN s
    OBVIOUS
  <2>2. ~IsWholeRef(s)
    BY <1>1, <2>1, Zenon DEF IsWholeRef, HasRef
  <2>. QED
    BY <1>1, <2>2, Zenon DEF ConvertString, TextNode
<1>2. ASSUME HasRef(s) PROVE ConvertString(s).kind = "ref"
  <2>1. CASE IsWholeRef(s)
    <3>1. ConvertString(s) = [kind |-> "ref", ref |-> ParseSecretRef(Inner(s))]
      BY <1>2, <2>1 DEF ConvertString
    <3>. QED
      BY <3>1
  <2>2. CASE ~IsWholeRef(s)
    <3>1. ConvertString(s) = [kind |-> "ref", ref |-> Failed]
      BY <1>2, <2>2, Zenon DEF ConvertString
    <3>. QED
      BY <3>1
  <2>. QED
    BY <2>1, <2>2
<1>. QED
  BY <1>1, <1>2

LEMMA LiteralInit == Init => LitInv
<1>. SUFFICES ASSUME Init PROVE Literal
  BY InitSound DEF LitInv
<1>1. node = TextNode(leaf.text) /\ (leaf.source = "file" => stage = "interpolate")
  BY DEF Init
<1>. QED
  BY <1>1 DEF Literal, IsEscaped

\* The step of each stage.
LEMMA LiteralInterpolate ==
  ASSUME Inv, Literal, Interpolate
  PROVE  Literal'
<1>. SUFFICES ASSUME IsEscaped' PROVE /\ stage' = "convert" /\ node' = TextNode(Single)
                                      /\ leaf' = leaf
  BY DEF Literal, Single
<1>1. leaf' = leaf
  BY DEF Interpolate, Fail, Answer
<1>2. IsEscaped /\ leaf.source = "file"
  BY <1>1 DEF IsEscaped, Single
<1>3. node = TextNode(leaf.text) /\ stage = "interpolate"
  BY <1>2 DEF Literal, Interpolate
<1>4. node.kind = "text" /\ node.text = leaf.text
  BY <1>3 DEF TextNode
<1>5. InterpolateString(leaf.text, leaf.env) = Single /\ Interpolable(leaf.text, leaf.env)
  BY <1>2, EscapeUndone DEF Inv
<1>6. node' = TextNode(InterpolateString(leaf.text, leaf.env)) /\ stage' = "convert"
  BY <1>2, <1>4, <1>5 DEF Interpolate
<1>. QED
  BY <1>1, <1>5, <1>6

\* A failure is not the text.
LEMMA FailureIsNoText ==
  ASSUME NEW s, NEW reason
  PROVE  [failure |-> reason] # TextNode(s)
<1>1. "kind" \in DOMAIN TextNode(s) /\ "kind" \notin DOMAIN [failure |-> reason]
  BY DEF TextNode
<1>. QED
  BY <1>1, Zenon

LEMMA LiteralConvert ==
  ASSUME Inv, Literal, Convert
  PROVE  Literal'
<1>1. leaf' = leaf /\ stage = "convert"
  BY DEF Convert, Fail, Answer
<1>. SUFFICES ASSUME IsEscaped
              PROVE  \/ stage' = "resolve" /\ node' = ConvertString(Single)
                     \/ /\ stage' = "done" /\ HasRef(Single)
                        /\ ~(node' = TextNode(Single) /\ answer' = node')
  BY <1>1 DEF Literal, IsEscaped, Single
<1>2. node = TextNode(Single)
  BY <1>1 DEF Literal
<1>3. node.text = Single
  BY <1>2 DEF TextNode
<1>4. Single \in Seq(Tok)
  BY EscapeUndone, CharTexts DEF Inv
<1>. DEFINE c == ConvertString(Single)
<1>5. CASE c.kind = "ref" /\ ~c.ref.ok
  <2>1. Fail("parse_error")
    BY <1>3, <1>5 DEF Convert
  <2>2. stage' = "done" /\ answer' = [failure |-> "parse_error"]
    BY <2>1 DEF Fail, Answer
  <2>3. HasRef(Single)
    <3>1. TextNode(Single).kind # "ref"
      BY DEF TextNode
    <3>. QED
      BY <1>4, <1>5, <3>1, ConvertedAsText
  <2>. QED
    BY <2>2, <2>3, FailureIsNoText
<1>6. CASE ~(c.kind = "ref" /\ ~c.ref.ok)
  <2>1. node' = c /\ stage' = IF leaf.source = "templated" THEN "interpolate" ELSE "resolve"
    BY <1>3, <1>6 DEF Convert
  <2>2. leaf.source = "file"
    BY DEF IsEscaped
  <2>. QED
    BY <2>1, <2>2
<1>. QED
  BY <1>5, <1>6

LEMMA LiteralResolve ==
  ASSUME Inv, Literal, Resolve
  PROVE  Literal'
<1>1. leaf' = leaf /\ node' = node /\ stage = "resolve" /\ stage' = "done"
  BY DEF Resolve, Unresolved, Fail, Answer
<1>. SUFFICES ASSUME IsEscaped
              PROVE  node' = TextNode(Single) /\ answer' = node' <=> ~HasRef(Single)
  BY <1>1 DEF Literal, IsEscaped, Single
<1>2. node = ConvertString(Single)
  BY <1>1 DEF Literal
<1>3. Single \in Seq(Tok)
  BY EscapeUndone, CharTexts DEF Inv
<1>4. TextNode(Single).kind = "text"
  BY DEF TextNode
<1>5. CASE HasRef(Single)
  <2>1. node'.kind = "ref"
    BY <1>1, <1>2, <1>3, <1>5, ConvertedAsText
  <2>. QED
    BY <1>4, <1>5, <2>1
<1>6. CASE ~HasRef(Single)
  <2>1. node = TextNode(Single)
    BY <1>2, <1>3, <1>6, ConvertedAsText
  <2>2. node.kind = "text"
    BY <1>4, <2>1
  <2>3. Answer(node)
    BY <2>2 DEF Resolve
  <2>4. answer' = node
    BY <2>3 DEF Answer
  <2>. QED
    BY <1>1, <1>6, <2>1, <2>4
<1>. QED
  BY <1>5, <1>6

LEMMA LiteralNext == LitInv /\ [Next]_vars => LitInv'
<1>. SUFFICES ASSUME LitInv, [Next]_vars PROVE Literal'
  BY NextSound DEF LitInv
<1>1. CASE Interpolate
  BY <1>1, LiteralInterpolate DEF LitInv
<1>2. CASE Convert
  BY <1>2, LiteralConvert DEF LitInv
<1>3. CASE Resolve
  BY <1>3, LiteralResolve DEF LitInv
<1>4. CASE UNCHANGED vars
  BY <1>4 DEF LitInv, Literal, IsEscaped, Single, vars
<1>. QED
  BY <1>1, <1>2, <1>3, <1>4 DEF Next, Done

\* A text of a file whose every dollar sign is doubled is served with single
\* ones whatever the variables are, unless it then reads as a reference
\* (interpolation.go:36-39): "$$" is an escape, wherever it stands in whatever
\* text, and nothing between "$$" and what follows is taken for a variable.
THEOREM EscapedIsLiteralHolds == Spec => []EscapedIsLiteral
<1>1. LitInv => EscapedIsLiteral
  <2>. SUFFICES ASSUME Literal PROVE EscapedIsLiteral
    BY DEF LitInv
  <2>. QED
    BY Zenon DEF Literal, IsEscaped, Single, EscapedIsLiteral, Dollar
<1>. QED
  BY LiteralInit, LiteralNext, <1>1, PTL DEF Spec

\* Masking "$$", replacing and unmasking come, for every text and every
\* environment, to one reading from the left (interpolation.go:44-97): no
\* escape or reference is made where one text ends and the next begins, and
\* none is found in what a variable or a default has brought in.
THEOREM OnePassHolds == Spec => []OnePass
<1>1. Sound => OnePass
  <2>. SUFFICES ASSUME Sound PROVE OnePass
    OBVIOUS
  <2>1. leaf.text \in Seq(Char) /\ IsEnv(leaf.env)
    BY CasesAssumption, CaseType DEF Sound
  <2>2. leaf.text \in Seq(Tok) /\ leaf.text \in Seq(Tok \ {Mask})
    BY <2>1, CharTexts
  <2>3. InterpolateString(leaf.text, leaf.env)
        = UnmaskedOf[Substituted(MaskedOf[leaf.text], leaf.env)]
    BY <2>1, <2>2, Interpolates
  <2>4. UnmaskedOf[Substituted(MaskedOf[leaf.text], leaf.env)] = ReadOnce(leaf.text, leaf.env)
    BY <2>1, <2>2, ReadAtOnce
  <2>. QED
    BY <2>3, <2>4, Zenon DEF OnePass
<1>2. Inv => OnePass
  BY <1>1 DEF Inv
<1>. QED
  BY InitSound, NextSound, <1>2, PTL DEF Spec

-----------------------------------------------------------------------------
(* The text ${NAME:-default} that stands beside ${secret:env:NAME:-default}. *)

\* The tokens a text has at every stage: no mask, and no mark of an unset variable.
LEMMA CharTok ==
  /\ Char = Tok \ {Mask, Unset}
  /\ \A n \in Name : n \in Char /\ n \in Tok /\ n \in Tok \ {Mask}
BY CharAssumption DEF Tok

LEMMA InterpolatedIsText ==
  ASSUME NEW s \in Seq(Char), NEW env, IsEnv(env), Interpolable(s, env)
  PROVE  InterpolateString(s, env) \in Seq(Char)
<1>. DEFINE u == Substituted(MaskedOf[s], env)
            v == InterpolateString(s, env)
<1>1. s \in Seq(Tok)
  BY CharTexts
<1>2. u \in Seq(Tok)
  <2>1. MaskedOf[s] \in Seq(Tok)
    BY <1>1, MaskedText
  <2>. QED
    BY <2>1, SubstitutedType
<1>3. v = UnmaskedOf[u]
  BY <1>1, Interpolates
<1>. HIDE DEF u
<1>4. UnmaskedOf[u] \in Seq(Tok \ {Mask})
  BY <1>2, MaskLaws, MaskedHasNone
<1>5. v \in Seq(Tok \ {Mask}) /\ ~Contains(v, Unset)
  BY <1>3, <1>4 DEF Interpolable
<1>. HIDE DEF v
<1>6. \A i \in 1 .. Len(v) : v[i] \in Tok \ {Mask, Unset}
  <2>1. \A i \in 1 .. Len(v) : v[i] \in Tok \ {Mask} /\ v[i] # Unset
    BY <1>5 DEF Contains
  <2>. QED
    BY <2>1
<1>7. v \in Seq(Tok \ {Mask, Unset})
  BY <1>5, <1>6
<1>. QED
  BY <1>7, CharTok DEF v

\* The default of a reference is a text, without a closing brace.
LEMMA DefaultIsText ==
  ASSUME NEW s \in Seq(Char), IsWholeRef(s)
  PROVE  SplitDefault(Inner(s)).tail \in Seq(Char \ {Brace}) \cup {None}
<1>. DEFINE inner == Inner(s)
            tail == SplitDefault(inner).tail
<1>1. inner \in Seq(Char) /\ \A j \in 1 .. Len(inner) : inner[j] # Brace
  BY InnerHasNoBrace
<1>. HIDE DEF inner
<1>. DEFINE U == Char \ {Brace}
<1>2. inner \in Seq(U) /\ Len(inner) \in Nat
  BY <1>1
<1>. HIDE DEF U
<1>3. ASSUME NEW i \in 1 .. Len(inner) PROVE SubSeq(inner, i + 2, Len(inner)) \in Seq(U)
  <2>. DEFINE k == i + 2
              n == Len(inner)
  <2>1. k \in Int /\ n \in Int /\ \A j \in k .. n : inner[j] \in U
    BY <1>2
  <2>2. SubSeq(inner, k, n) \in Seq(U)
    <3>. HIDE DEF k, n
    <3>. QED
      BY <2>1
  <2>. QED
    BY <2>2
<1>4. tail = None \/ \E i \in 1 .. Len(inner) : tail = SubSeq(inner, i + 2, Len(inner))
  BY <1>2, DefaultOf
<1>5. tail = None \/ tail \in Seq(U)
  <2>. HIDE DEF tail
  <2>. QED
    BY <1>3, <1>4
<1>. QED
  BY <1>5 DEF inner, U

\* Two tokens, one put before the other.
LEMMA PairOf ==
  ASSUME NEW a, NEW b
  PROVE  <<a, b>> = <<a>> \o <<b>>
<1>. DEFINE T == {a, b}
            q == <<a>> \o <<b>>
            r == <<a, b>>
<1>1. <<a>> \in Seq(T) /\ <<b>> \in Seq(T) /\ r \in Seq(T)
  OBVIOUS
<1>2. q \in Seq(T) /\ Len(q) = 2 /\ q[1] = a /\ q[2] = b
  BY <1>1
<1>3. Len(r) = 2 /\ r[1] = a /\ r[2] = b
  OBVIOUS
<1>. HIDE DEF q, r, T
<1>4. \A i \in 1 .. 2 : q[i] = r[i]
  BY <1>2, <1>3
<1>5. q = r
  BY <1>1, <1>2, <1>3, <1>4
<1>. QED
  BY <1>5 DEF q, r

LEMMA HeadJoins ==
  ASSUME NEW T, NEW a \in T, NEW b \in T, NEW n \in T, NEW w \in Seq(T)
  PROVE  (<<a, b>> \o <<n>>) \o w = Cons(a, Cons(b, Cons(n, w)))
<1>. DEFINE x == <<a>>
            y == <<b>>
            z == <<n>>
<1>1. x \in Seq(T) /\ y \in Seq(T) /\ z \in Seq(T)
  OBVIOUS
<1>2. <<a, b>> = x \o y
  BY PairOf
<1>. HIDE DEF x, y, z
<1>3. y \o z \in Seq(T) /\ z \o w \in Seq(T)
  BY <1>1
<1>a. Texts(T, x, y, z) /\ Texts(T, y, z, w)
  BY <1>1 DEF Texts
<1>b. Texts(T, x, y \o z, w)
  BY <1>1, <1>3 DEF Texts
<1>4. ((x \o y) \o z) \o w = (x \o (y \o z)) \o w
  BY <1>a, Regroup
<1>5. (x \o (y \o z)) \o w = x \o ((y \o z) \o w)
  BY <1>b, Regroup
<1>6. (y \o z) \o w = y \o (z \o w)
  BY <1>a, Regroup
<1>7. (<<a, b>> \o z) \o w = x \o (y \o (z \o w))
  BY <1>2, <1>4, <1>5, <1>6, Zenon
<1>. QED
  BY <1>7, Zenon DEF Cons, x, y, z

\* The text a reference of the env scheme is compared with, as a match.
LEMMA TwinIsPlain ==
  ASSUME NEW n \in Name, NEW ref, ref.path = <<n>>, ref.default = None
  PROVE  IsPlain(EnvTwin(ref), n, <<>>)
<1>0. n \in Tok /\ Dollar \in Tok /\ Open \in Tok /\ Brace \in Tok
  BY CharTok, TokMarks DEF HasMarks
<1>. DEFINE h == <<Dollar, Open>> \o <<n>>
            b == <<Brace>>
<1>1. EnvTwin(ref) = (h \o <<>>) \o b
  BY Zenon DEF EnvTwin, Dollar, Open, Brace
<1>2. h \in Seq(Tok) /\ b \in Seq(Tok) /\ <<>> \in Seq(Tok)
  BY <1>0
<1>3. b \o <<>> = b /\ h \o <<>> = h
  <2>. HIDE DEF h, b
  <2>. QED
    BY <1>2, ConcatEmptySeq
<1>4. h \o b = Cons(Dollar, Cons(Open, Cons(n, b)))
  <2>. HIDE DEF b
  <2>. QED
    BY <1>0, <1>2, HeadJoins
<1>. HIDE DEF h
<1>. QED
  BY <1>1, <1>3, <1>4, Zenon DEF IsPlain, Opens, Cons, b

LEMMA TwinIsDefaulted ==
  ASSUME NEW n \in Name, NEW ref, ref.path = <<n>>, ref.default # None,
         Doubled(ref.default) \in Seq(Tok)
  PROVE  IsDefaulted(EnvTwin(ref), n, Doubled(ref.default), <<>>)
<1>. DEFINE d == Doubled(ref.default)
            c == Cons(Brace, <<>>)
            b == <<Brace>>
            h == <<Colon, Dash>>
            v == d \o b
<1>0. n \in Tok /\ Dollar \in Tok /\ Open \in Tok /\ Colon \in Tok /\ Dash \in Tok /\ Brace \in Tok
  BY CharTok, TokMarks DEF HasMarks
<1>1. EnvTwin(ref) = <<Dollar, Open>> \o <<n>> \o (h \o d) \o b
  BY Zenon DEF EnvTwin, Dollar, Open, Brace, Colon, Dash
<1>2. c = b
  BY DEF Cons
<1>3. d \in Seq(Tok)
  OBVIOUS
<1>4. b \in Seq(Tok) /\ h \in Seq(Tok)
  BY <1>0
<1>. HIDE DEF d, b, c
<1>5. v \in Seq(Tok)
  BY <1>3, <1>4
<1>6. (h \o d) \o b = h \o v
  BY <1>3, <1>4, ConcatAssociative
<1>. HIDE DEF v
<1>7. h \o v = Cons(Colon, Cons(Dash, v))
  <2>1. h = <<Colon>> \o <<Dash>>
    BY PairOf
  <2>2. <<Colon>> \in Seq(Tok) /\ <<Dash>> \in Seq(Tok)
    BY <1>0
  <2>3. (<<Colon>> \o <<Dash>>) \o v = <<Colon>> \o (<<Dash>> \o v)
    BY <1>5, <2>2, ConcatAssociative
  <2>. HIDE DEF h
  <2>. QED
    BY <2>1, <2>3, Zenon DEF Cons
<1>. DEFINE w == h \o v
            a == <<Dollar, Open>> \o <<n>>
            g == h \o d
<1>8. w \in Seq(Tok) /\ g \in Seq(Tok) /\ a \in Seq(Tok)
  BY <1>0, <1>3, <1>4, <1>5
<1>9. (a \o g) \o b = a \o w
  <2>. HIDE DEF a, g, w
  <2>1. (a \o g) \o b = a \o (g \o b)
    <3>. HIDE DEF h
    <3>1. Texts(Tok, a, g, b)
      BY <1>4, <1>8 DEF Texts
    <3>2. a \o (g \o b) = (a \o g) \o b
      BY <3>1, Regroup
    <3>. QED
      BY <3>2, Zenon
  <2>2. g \o b = w
    BY <1>6, Zenon DEF g, w
  <2>. QED
    BY <2>1, <2>2, Zenon
<1>10. a \o w = Cons(Dollar, Cons(Open, Cons(n, w)))
  <2>. HIDE DEF w
  <2>. QED
    BY <1>0, <1>8, HeadJoins
<1>11. EnvTwin(ref) = Cons(Dollar, Cons(Open, Cons(n, Cons(Colon, Cons(Dash, d \o c)))))
  <2>1. EnvTwin(ref) = (a \o g) \o b
    BY <1>1, Zenon DEF a, g
  <2>. HIDE DEF a, g
  <2>2. EnvTwin(ref) = Cons(Dollar, Cons(Open, Cons(n, w)))
    BY <1>9, <1>10, <2>1, Zenon
  <2>. QED
    BY <1>2, <1>7, <2>2, Zenon DEF w, v
<1>. QED
  BY <1>11, Zenon DEF IsDefaulted, Opens, d, c

\* What the text with ${n} and the text with ${n:-d} are read as.
LEMMA ReadAsOne ==
  ASSUME NEW s \in Seq(Tok), s # <<>>, s[1] = Dollar, s[2] = Open,
         MatchesAt(s, 1), MatchEnd(s, 1) = Len(s), NEW env, IsEnv(env)
  PROVE  ReadOnce(s, env) = ReadValue(s, 1, env)
<1>. DEFINE e == <<>>
            v == ReadValue(s, 1, env)
<1>0. 1 \in 1 .. Len(s) /\ e \in Seq(Tok)
  OBVIOUS
<1>1. ~HasAt(s, 1, <<Dollar, Dollar>>)
  <2>1. HasAt(s, 1, <<Dollar, Dollar>>) => s[1 + 1] = Dollar
    BY <1>0, HasTwoAt
  <2>2. 1 + 1 = 2
    OBVIOUS
  <2>. QED
    BY <2>1, <2>2, Marks, Zenon
<1>2. s \o e = s
  BY ConcatEmptySeq
<1>3. ReadOnce(s \o e, env) = ReadValue(s \o e, 1, env) \o ReadOnce(e, env)
  <2>1. ReadsText(env)
    BY ReadOnceLaws
  <2>2. /\ s \o e # <<>> /\ ~HasAt(s \o e, 1, <<Dollar, Dollar>>)
        /\ MatchesAt(s \o e, 1) /\ MatchEnd(s \o e, 1) = Len(s)
    BY <1>1, <1>2, Zenon
  <2>. HIDE DEF e
  <2>. QED
    BY <1>0, <2>1, <2>2, Zenon DEF ReadsText
<1>4. ReadOnce(e, env) = e
  BY ReadOnceLaws, Zenon DEF ReadsText
<1>5. v \in Seq(Tok)
  BY <1>0, ReadValueType
<1>6. v \o e = v
  <2>. HIDE DEF v
  <2>. QED
    BY <1>5, ConcatEmptySeq
<1>. QED
  BY <1>2, <1>3, <1>4, <1>6, Zenon DEF v

\* What ${n} and ${n:-d} come to.
PlainValue(n, env) == IF IsSet(env, n) THEN env[n] ELSE <<Unset>>
DefaultedValue(n, d, env) == IF IsSet(env, n) /\ env[n] # <<>> THEN env[n] ELSE d

LEMMA PlainTwin ==
  ASSUME NEW n \in Name, NEW ref, ref.path = <<n>>, ref.default = None, NEW env, IsEnv(env)
  PROVE  InterpolateString(EnvTwin(ref), env) = PlainValue(n, env)
<1>. DEFINE s == EnvTwin(ref)
            T == Tok \ {Mask}
<1>0. HasMarks(T) /\ n \in T /\ <<>> \in Seq(T) /\ IsPlain(s, n, <<>>)
  BY TokMarks, CharTok, TwinIsPlain
<1>. HIDE DEF s, T
<1>1. /\ s \in Seq(T) /\ s # <<>> /\ s[1 + 2] = n /\ ~HasDefault(s, 1)
      /\ MatchesAt(s, 1) /\ MatchEnd(s, 1) = 4
  <2>. DEFINE r == <<>>
  <2>1. r \in Seq(T) /\ IsPlain(s, n, r)
    BY <1>0
  <2>. HIDE DEF r
  <2>. QED
    BY <1>0, <2>1, PlainMatch
<1>2. Len(s) = 4 /\ s[1] = Dollar /\ s[2] = Open
  <2>. DEFINE t == <<Brace>>
  <2>1. t \in Seq(T) /\ Len(t) = 1
    BY <1>0 DEF HasMarks
  <2>2. Cons(Brace, <<>>) = t
    BY DEF Cons
  <2>. HIDE DEF t
  <2>3. Opens(s, n, t)
    BY <1>0, <2>2, Zenon DEF IsPlain
  <2>4. t \in Seq(T)
    BY <2>1
  <2>5. HasMarks(T) /\ n \in T
    BY <1>0
  <2>6. Len(s) = Len(t) + 3 /\ s[1] = Dollar /\ s[2] = Open
    BY <2>3, <2>4, <2>5, OpensLaws
  <2>. QED
    BY <2>1, <2>6
<1>3. s \in Seq(Tok)
  BY <1>1, SeqMonotonic DEF T
<1>4. InterpolateString(s, env) = ReadOnce(s, env)
  <2>1. UnmaskedOf[Substituted(MaskedOf[s], env)] = ReadOnce(s, env)
    BY <1>1, ReadAtOnce DEF T
  <2>. QED
    BY <1>3, <2>1, Interpolates
<1>5. ReadOnce(s, env) = ReadValue(s, 1, env)
  BY <1>1, <1>2, <1>3, ReadAsOne
<1>6. ReadValue(s, 1, env) = PlainValue(n, env)
  BY <1>1, Zenon DEF ReadValue, PlainValue
<1>. QED
  BY <1>4, <1>5, <1>6, Zenon DEF s

LEMMA ReplacedByItself ==
  ASSUME NEW T, NEW d \in T, NEW C, ReplacesOne(T, d, <<d>>, C)
  PROVE  \A s \in Seq(T) : C[s] = s
<1>. DEFINE S == {s \in Seq(T) : C[s] = s}
<1>1. ASSUME NEW s \in Seq(T), \A r \in Seq(T) : Len(r) < Len(s) => r \in S PROVE s \in S
  <2>1. CASE s = <<>>
    BY <2>1, Zenon DEF ReplacesOne
  <2>2. CASE s # <<>>
    <3>1. PICK x \in T, r \in Seq(T) : s = <<x>> \o r /\ Len(r) < Len(s)
      BY <2>2, HeadAndRest
    <3>2. C[r] = r
      BY <1>1, <3>1, Zenon
    <3>3. C[s] = <<x>> \o C[r]
      <4>1. x = d \/ x \in T \ {d}
        OBVIOUS
      <4>. QED
        BY <3>1, <4>1, Zenon DEF ReplacesOne
    <3>. QED
      BY <3>1, <3>2, <3>3, Zenon
  <2>. QED
    BY <2>1, <2>2
<1>2. Seq(T) \subseteq S
  <2>. HIDE DEF S
  <2>. QED
    BY <1>1, TextInduction, Zenon
<1>. QED
  BY <1>2, Zenon

\* A doubled text, and what it is with its escapes undone.
LEMMA DoubledBack ==
  ASSUME NEW T, Dollar \in T, NEW d \in Seq(T)
  PROVE  /\ Doubled(d) \in Seq(T)
         /\ ReplaceEach(Doubled(d), <<Dollar, Dollar>>, <<Dollar>>) = d
<1>. DEFINE A == [t \in Seq(T) |-> ReplaceEach(t, <<Dollar>>, <<Dollar, Dollar>>)]
            B == [t \in Seq(T) |-> ReplaceEach(t, <<Dollar, Dollar>>, <<Dollar>>)]
            C == [t \in Seq(T) |-> ReplaceEach(t, <<Dollar>>, <<Dollar>>)]
<1>0. <<Dollar>> \in Seq(T) /\ <<Dollar, Dollar>> \in Seq(T)
  OBVIOUS
<1>1. /\ ReplacesOne(T, Dollar, <<Dollar, Dollar>>, A)
      /\ ReplacesOne(T, Dollar, <<Dollar>>, C)
  BY <1>0, ReplaceOneLaws
<1>2. ReplacesTwo(T, Dollar, Dollar, <<Dollar>>, B)
  BY <1>0, ReplaceTwoLaws
<1>3. Doubled(d) = A[d]
  BY Zenon DEF Doubled, Dollar
<1>4. \A t \in Seq(T) : B[t] = ReplaceEach(t, <<Dollar, Dollar>>, <<Dollar>>)
  BY Zenon
<1>. HIDE DEF A, B, C
<1>5. A[d] \in Seq(T)
  BY <1>1, Zenon DEF ReplacesOne
<1>6. B[A[d]] = C[d]
  BY <1>1, <1>2, DoubledIsMasked
<1>7. C[d] = d
  BY <1>1, ReplacedByItself
<1>. QED
  BY <1>3, <1>4, <1>5, <1>6, <1>7, Zenon

LEMMA DefaultedTwin ==
  ASSUME NEW n \in Name, NEW ref, ref.path = <<n>>, ref.default # None,
         ref.default \in Seq(Char \ {Brace}), NEW env, IsEnv(env)
  PROVE  InterpolateString(EnvTwin(ref), env) = DefaultedValue(n, ref.default, env)
<1>. DEFINE s == EnvTwin(ref)
            T == Tok \ {Mask}
            c == ref.default
            d == Doubled(c)
            P == Char \ {Brace}
<1>0. HasMarks(T) /\ n \in T /\ n \in Name
  BY TokMarks, CharTok
<1>a. c \in Seq(P)
  OBVIOUS
<1>1. Dollar \in P /\ P \subseteq Tok /\ P \subseteq T /\ P \subseteq T \ {Brace}
  BY Marks, CharTok
<1>2. d \in Seq(P) /\ ReplaceEach(d, <<Dollar, Dollar>>, <<Dollar>>) = c
  <2>. HIDE DEF P, c
  <2>. QED
    BY <1>a, <1>1, DoubledBack
<1>3. d \in Seq(Tok) /\ d \in Seq(T) /\ d \in Seq(T \ {Brace})
  <2>. HIDE DEF P, d, T
  <2>. QED
    BY <1>1, <1>2, SeqMonotonic
<1>4. IsDefaulted(s, n, d, <<>>)
  BY <1>3, TwinIsDefaulted
<1>. HIDE DEF s, T, d, P
<1>5. DefaultedShape(T, s, n, d, <<>>)
  <2>. DEFINE r == <<>>
  <2>1. r \in Seq(T) /\ IsDefaulted(s, n, d, r)
    BY <1>4
  <2>. HIDE DEF r
  <2>2. DefaultedShape(T, s, n, d, r)
    BY <1>0, <1>3, <2>1, DefaultedMatch
  <2>. QED
    BY <2>2 DEF r
<1>6. /\ s \in Seq(T) /\ s # <<>> /\ s[1 + 2] = n /\ HasDefault(s, 1) /\ DefaultAt(s, 1) = d
      /\ MatchesAt(s, 1) /\ MatchEnd(s, 1) = Len(d) + 6
      /\ \E p \in Seq(T) : Joins(s, p, <<>>) /\ Len(p) = Len(d) + 6
  BY <1>5 DEF DefaultedShape
<1>7. Len(s) = Len(d) + 6
  <2>1. PICK p \in Seq(T) : Joins(s, p, <<>>) /\ Len(p) = Len(d) + 6
    BY <1>6
  <2>2. s = p
    BY <2>1, ConcatEmptySeq DEF Joins
  <2>. QED
    BY <2>1, <2>2
<1>8. s \in Seq(Tok)
  BY <1>6, SeqMonotonic DEF T
<1>9. s[1] = Dollar /\ s[2] = Open
  <2>1. 1 \in 1 .. Len(s)
    BY <1>6
  <2>2. IsMatch(s, 1)
    BY <1>6, <1>8, <2>1, MatchesMeans
  <2>. QED
    BY <2>2 DEF IsMatch
<1>10. InterpolateString(s, env) = ReadOnce(s, env)
  <2>1. UnmaskedOf[Substituted(MaskedOf[s], env)] = ReadOnce(s, env)
    BY <1>6, ReadAtOnce DEF T
  <2>. QED
    BY <1>8, <2>1, Interpolates
<1>11. ReadOnce(s, env) = ReadValue(s, 1, env)
  <2>1. MatchEnd(s, 1) = Len(s)
    BY <1>6, <1>7
  <2>. QED
    BY <1>6, <1>8, <1>9, <2>1, ReadAsOne
<1>12. ReadValue(s, 1, env) = DefaultedValue(n, c, env)
  <2>1. CASE IsSet(env, n)
    <3>1. env[n] # <<Unset>>
      <4>. DEFINE v == env[n]
      <4>1. v \in Seq(Char)
        BY <2>1, EnvType
      <4>. HIDE DEF v
      <4>2. v # <<Unset>>
        BY <4>1, TextIsSet
      <4>. QED
        BY <4>2 DEF v
    <3>. QED
      BY <1>2, <1>6, <2>1, <3>1, Zenon DEF ReadValue, DefaultedValue, Dollar
  <2>2. CASE ~IsSet(env, n)
    BY <1>2, <1>6, <2>2, Zenon DEF ReadValue, DefaultedValue, Dollar
  <2>. QED
    BY <2>1, <2>2
<1>. QED
  BY <1>10, <1>11, <1>12, Zenon DEF s

-----------------------------------------------------------------------------
(* The env scheme and the interpolation come to the same.                  *)

EnvAnswer(ref, n, env) ==
  IF IsSet(env, n) THEN TextNode(env[n])
  ELSE IF ref.default = None THEN [failure |-> "secret_unresolved"]
  ELSE TextNode(ref.default)

\* What has been a text on its way, and what the env scheme comes to.
Answered ==
  \A n \in Name :
    /\ stage = "done" /\ node.kind = "ref"
    /\ node.ref.scheme = <<"env">> /\ node.ref.path = <<n>>
    => answer = EnvAnswer(node.ref, n, leaf.env)

Clean ==
  /\ node.kind = "text" => node.text \in Seq(Char)
  /\ node.kind = "ref" => node.ref.default \in Seq(Char \ {Brace}) \cup {None}

Even == Inv /\ Clean /\ Answered

LEMMA EvenInit == Init => Even
<1>. SUFFICES ASSUME Init PROVE Clean /\ Answered
  BY InitSound DEF Even
<1>1. node.kind = "text" /\ node.text = leaf.text /\ leaf.text \in Seq(Char)
  BY CasesAssumption DEF Init, TextNode
<1>. QED
  BY <1>1 DEF Clean, Answered

LEMMA EvenInterpolate ==
  ASSUME Even, Interpolate
  PROVE  (Clean /\ Answered)'
<1>1. CASE /\ node.kind = "text" /\ Interpolable(node.text, leaf.env)
           /\ node' = TextNode(InterpolateString(node.text, leaf.env))
  <2>1. IsEnv(leaf.env) /\ node.text \in Seq(Char)
    BY <1>1, CaseType DEF Even, Inv, Sound, Clean
  <2>2. InterpolateString(node.text, leaf.env) \in Seq(Char)
    BY <1>1, <2>1, InterpolatedIsText
  <2>3. node'.kind = "text" /\ node'.text = InterpolateString(node.text, leaf.env)
    BY <1>1 DEF TextNode
  <2>. QED
    BY <2>2, <2>3 DEF Clean, Answered
<1>2. CASE node.kind = "text" /\ node' = node
  BY <1>2 DEF Even, Clean, Answered
<1>3. CASE node.kind = "ref" /\ node' = node /\ stage' = "resolve"
  BY <1>3 DEF Even, Clean, Answered
<1>. QED
  BY <1>1, <1>2, <1>3 DEF Interpolate, Fail, Answer

LEMMA EvenConvert ==
  ASSUME Even, Convert
  PROVE  (Clean /\ Answered)'
<1>. DEFINE s == node.text
            c == ConvertString(s)
<1>1. node.kind = "text" /\ s \in Seq(Char) /\ s \in Seq(Tok)
  BY CharTexts DEF Even, Inv, Sound, Clean, Convert
<1>2. CASE node' = node
  BY <1>1, <1>2 DEF Clean, Answered
<1>3. CASE /\ node' = c /\ ~(c.kind = "ref" /\ ~c.ref.ok)
           /\ stage' \in {"interpolate", "resolve"}
  <2>1. CASE ~HasRef(s)
    <3>1. c = TextNode(s)
      BY <1>1, <2>1, ConvertedAsText
    <3>2. c.kind = "text" /\ c.text = s
      BY <3>1 DEF TextNode
    <3>. HIDE DEF c
    <3>. QED
      BY <1>1, <1>3, <3>2 DEF Clean, Answered
  <2>2. CASE HasRef(s) /\ IsWholeRef(s)
    <3>. DEFINE p == ParseSecretRef(Inner(s))
    <3>1. c = [kind |-> "ref", ref |-> p]
      BY <2>2 DEF ConvertString
    <3>2. p.ok => p.default = SplitDefault(Inner(s)).tail
      BY DEF ParseSecretRef, Failed
    <3>. HIDE DEF p
    <3>3. c.kind = "ref" /\ c.ref = p
      BY <3>1
    <3>4. p.default \in Seq(Char \ {Brace}) \cup {None}
      BY <1>1, <1>3, <2>2, <3>2, <3>3, DefaultIsText
    <3>. HIDE DEF c
    <3>. QED
      BY <1>3, <3>3, <3>4 DEF Clean, Answered
  <2>3. CASE HasRef(s) /\ ~IsWholeRef(s)
    <3>1. c = [kind |-> "ref", ref |-> Failed]
      BY <2>3, Zenon DEF ConvertString
    <3>2. c.kind = "ref" /\ ~c.ref.ok
      BY <3>1 DEF Failed
    <3>. QED
      BY <1>3, <3>2
  <2>. QED
    BY <2>1, <2>2, <2>3
<1>4. \/ c.kind = "ref" /\ ~c.ref.ok /\ node' = node
      \/ /\ node' = c /\ ~(c.kind = "ref" /\ ~c.ref.ok)
         /\ stage' = IF leaf.source = "templated" THEN "interpolate" ELSE "resolve"
  BY DEF Convert, Fail, Answer
<1>. QED
  BY <1>2, <1>3, <1>4

\* resolveOneRef, for the env scheme.
LEMMA EnvResolves ==
  ASSUME NEW env, IsEnv(env), NEW n, NEW path, path = <<n>>
  PROVE  /\ IsSet(env, n) => EnvResolve(path, env) = env[n] /\ env[n] # None
         /\ ~IsSet(env, n) => EnvResolve(path, env) = None
<1>1. \A m : <<m>> = <<n>> => m = n
  OBVIOUS
<1>2. Head(path) = n
  OBVIOUS
<1>3. ASSUME IsSet(env, n) PROVE EnvResolve(path, env) = env[n] /\ env[n] # None
  <2>1. \E name \in DOMAIN env : path = <<name>>
    BY <1>3 DEF IsSet
  <2>2. env[n] \in Seq(Char)
    BY <1>3, EnvType
  <2>. QED
    BY <1>2, <2>1, <2>2, CharAssumption DEF EnvResolve
<1>4. ASSUME ~IsSet(env, n) PROVE EnvResolve(path, env) = None
  <2>1. ~\E name \in DOMAIN env : path = <<name>>
    BY <1>1, <1>4 DEF IsSet
  <2>. QED
    BY <2>1 DEF EnvResolve
<1>. QED
  BY <1>3, <1>4

LEMMA EvenResolve ==
  ASSUME Even, Resolve
  PROVE  (Clean /\ Answered)'
<1>1. node' = node /\ leaf' = leaf /\ stage = "resolve"
  BY DEF Resolve, Unresolved, Fail, Answer
<1>2. Clean'
  BY <1>1 DEF Even, Clean
<1>3. ASSUME NEW n \in Name, node.kind = "ref", node.ref.scheme = <<"env">>, node.ref.path = <<n>>
      PROVE  answer' = EnvAnswer(node.ref, n, leaf.env)
  <2>. DEFINE v == EnvResolve(node.ref.path, leaf.env)
  <2>0. IsEnv(leaf.env)
    BY CaseType DEF Even, Inv, Sound
  <2>1. /\ IsSet(leaf.env, n) => v = leaf.env[n] /\ leaf.env[n] # None
        /\ ~IsSet(leaf.env, n) => v = None
    BY <1>3, <2>0, EnvResolves
  <2>2. IF v = None THEN Unresolved(node.ref) ELSE Answer(TextNode(v))
    <3>1. node.kind # "text"
      BY <1>3
    <3>2. (node.kind = "text" /\ Answer(node))
          \/ IF v = None THEN Unresolved(node.ref) ELSE Answer(TextNode(v))
      BY <1>3 DEF Resolve
    <3>. QED
      BY <3>1, <3>2
  <2>. HIDE DEF v
  <2>3. CASE IsSet(leaf.env, n)
    <3>1. answer' = TextNode(leaf.env[n])
      BY <2>1, <2>2, <2>3 DEF Answer
    <3>. QED
      BY <2>3, <3>1 DEF EnvAnswer
  <2>4. CASE ~IsSet(leaf.env, n)
    <3>1. Unresolved(node.ref)
      BY <2>1, <2>2, <2>4
    <3>. QED
      BY <2>4, <3>1 DEF Unresolved, Fail, Answer, EnvAnswer
  <2>. QED
    BY <2>3, <2>4
<1>. QED
  BY <1>1, <1>2, <1>3 DEF Answered

LEMMA EvenNext == Even /\ [Next]_vars => Even'
<1>. SUFFICES ASSUME Even, [Next]_vars PROVE (Clean /\ Answered)'
  BY NextSound DEF Even
<1>1. CASE Interpolate
  BY <1>1, EvenInterpolate
<1>2. CASE Convert
  BY <1>2, EvenConvert
<1>3. CASE Resolve
  BY <1>3, EvenResolve
<1>4. CASE UNCHANGED vars
  BY <1>4 DEF Even, Clean, Answered, vars
<1>. QED
  BY <1>1, <1>2, <1>3, <1>4 DEF Next, Done

LEMMA TextIsNode ==
  ASSUME NEW s, NEW t, TextNode(s) = TextNode(t)
  PROVE  s = t
<1>1. TextNode(s).text = s /\ TextNode(t).text = t
  BY DEF TextNode
<1>. QED
  BY <1>1, Zenon

LEMMA TextsHaveNoUnset ==
  ASSUME NEW s \in Seq(Char)
  PROVE  ~Contains(s, Unset)
BY Marks DEF Contains

\* The two stages, side by side.
LEMMA TwinEven ==
  ASSUME NEW env, IsEnv(env), NEW n \in Name, NEW ref, ref.path = <<n>>,
         ref.default \in Seq(Char \ {Brace}) \cup {None}
  PROVE  LET twin == EnvTwin(ref)
             empty == IsSet(env, n) /\ env[n] = <<>>
         IN IF Interpolable(twin, env)
            THEN EnvAnswer(ref, n, env) = TextNode(InterpolateString(twin, env))
                 <=> ~(empty /\ ref.default \notin {None, <<>>})
            ELSE EnvAnswer(ref, n, env) = [failure |-> "secret_unresolved"]
<1>. DEFINE twin == EnvTwin(ref)
            v == InterpolateString(twin, env)
            d == ref.default
<1>0. IsSet(env, n) => env[n] \in Seq(Char)
  BY EnvType
<1>1. CASE d = None
  <2>1. v = PlainValue(n, env)
    BY <1>1, PlainTwin
  <2>. HIDE DEF v, twin
  <2>2. CASE IsSet(env, n)
    <3>1. v = env[n] /\ EnvAnswer(ref, n, env) = TextNode(env[n])
      BY <2>1, <2>2 DEF PlainValue, EnvAnswer
    <3>2. v \in Seq(Char)
      BY <1>0, <2>2, <3>1
    <3>3. Interpolable(twin, env)
      BY <3>2, TextsHaveNoUnset, Zenon DEF Interpolable, v
    <3>. QED
      BY <1>1, <3>1, <3>3 DEF twin, v
  <2>3. CASE ~IsSet(env, n)
    <3>1. EnvAnswer(ref, n, env) = [failure |-> "secret_unresolved"]
      BY <1>1, <2>3 DEF EnvAnswer
    <3>2. v = <<Unset>>
      BY <2>1, <2>3 DEF PlainValue
    <3>3. Contains(v, Unset)
      BY <3>2 DEF Contains
    <3>4. ~Interpolable(twin, env)
      BY <3>3, Zenon DEF Interpolable, v
    <3>. QED
      BY <3>1, <3>4 DEF twin
  <2>. QED
    BY <2>2, <2>3
<1>2. CASE d # None
  <2>0. d \in Seq(Char \ {Brace})
    BY <1>2
  <2>1. v = DefaultedValue(n, d, env)
    BY <1>2, <2>0, DefaultedTwin
  <2>2. d \in Seq(Char)
    BY <2>0, SeqMonotonic
  <2>3. d # None
    BY <1>2
  <2>. HIDE DEF v, twin, d
  <2>4. v \in Seq(Char)
    BY <1>0, <2>1, <2>2 DEF DefaultedValue
  <2>5. Interpolable(twin, env)
    BY <2>4, TextsHaveNoUnset, Zenon DEF Interpolable, v
  <2>6. EnvAnswer(ref, n, env) = TextNode(IF IsSet(env, n) THEN env[n] ELSE d)
    BY <2>3 DEF EnvAnswer, d
  <2>7. (IF IsSet(env, n) THEN env[n] ELSE d) = v <=> ~(IsSet(env, n) /\ env[n] = <<>> /\ d # <<>>)
    BY <2>1 DEF DefaultedValue
  <2>8. EnvAnswer(ref, n, env) = TextNode(v) <=> (IF IsSet(env, n) THEN env[n] ELSE d) = v
    BY <2>6, TextIsNode, Zenon
  <2>9. EnvAnswer(ref, n, env) = TextNode(v)
        <=> ~((IsSet(env, n) /\ env[n] = <<>>) /\ d \notin {None, <<>>})
    BY <2>3, <2>7, <2>8
  <2>. QED
    BY <2>5, <2>9 DEF d, v, twin
<1>. QED
  BY <1>1, <1>2

\* ${secret:env:NAME:-default} is served exactly what ${NAME:-default}, its
\* dollar signs doubled, is replaced by, in every environment, and is refused
\* where that is; but for a variable that is set and empty
\* (interpolation.go:74-90, secrets.go:124-164).
THEOREM EnvParityHolds == Spec => []EnvParity
<1>1. Even => EnvParity
  <2>. SUFFICES ASSUME Even, stage = "done", node.kind = "ref", node.ref.scheme = <<"env">>,
                       NEW n \in Name, node.ref.path = <<n>>
                PROVE  LET twin == EnvTwin(node.ref)
                           empty == IsSet(leaf.env, n) /\ leaf.env[n] = <<>>
                       IN IF Interpolable(twin, leaf.env)
                          THEN answer = TextNode(InterpolateString(twin, leaf.env))
                               <=> ~(empty /\ node.ref.default \notin {None, <<>>})
                          ELSE answer = [failure |-> "secret_unresolved"]
    <3>1. \A n \in Name : node.ref.path = <<n>> => Head(node.ref.path) = n
      OBVIOUS
    <3>. QED
      BY <3>1, Zenon DEF EnvParity
  <2>1. answer = EnvAnswer(node.ref, n, leaf.env)
    BY DEF Even, Answered
  <2>2. IsEnv(leaf.env)
    BY CaseType DEF Even, Inv, Sound
  <2>3. node.ref.default \in Seq(Char \ {Brace}) \cup {None}
    BY DEF Even, Clean
  <2>. QED
    BY <2>1, <2>2, <2>3, TwinEven, Zenon
<1>. QED
  BY EvenInit, EvenNext, <1>1, PTL DEF Spec

-----------------------------------------------------------------------------
(* The parts of a reading are texts.                                       *)

Hash == "#"
Quest == "?"
Slash == "/"

LEMMA SplitMarks == Hash # Quest /\ {Hash, Quest, Colon, Dash} \subseteq Char
BY CharAssumption DEF Hash, Quest, Colon, Dash

\* Pieces put in a row are a text.
LEMMA FlattenType ==
  ASSUME NEW T, NEW q \in Seq(Seq(T))
  PROVE  FlattenSeq(q) \in Seq(T)
<1>1. CASE Len(q) = 0
  <2>1. q = <<>>
    BY <1>1, EmptySeq
  <2>2. FlattenSeq(q) = q
    BY <1>1 DEF FlattenSeq
  <2>. DEFINE e == <<>>
  <2>3. e \in Seq(T) /\ q = e
    BY <2>1
  <2>. HIDE DEF e
  <2>. QED
    BY <2>2, <2>3, Zenon
<1>2. CASE Len(q) # 0
  <2>1. PICK v : IsFlattening(T, q, v)
    BY <1>2, FlattenRuns
  <2>2. Len(q) \in 1 .. Len(q)
    BY <1>2
  <2>. QED
    BY <2>1, <2>2 DEF IsFlattening
<1>. QED
  BY <1>1, <1>2

\* A decoded query and an unescaped path are texts.
LEMMA DecodedType ==
  ASSUME NEW escapes, \A t \in DOMAIN escapes : escapes[t] \in Seq(Char), NEW q \in Seq(Char)
  PROVE  DecodedBy(escapes, q) \in Seq(Char)
<1>. DEFINE E(i) == IF InValue(q, i) /\ q[i] \in DOMAIN escapes THEN escapes[q[i]] ELSE <<q[i]>>
            pieces == [i \in DOMAIN q |-> E(i)]
<1>1. ASSUME NEW i \in 1 .. Len(q) PROVE E(i) \in Seq(Char)
  <2>1. <<q[i]>> \in Seq(Char)
    OBVIOUS
  <2>2. q[i] \in DOMAIN escapes => escapes[q[i]] \in Seq(Char)
    OBVIOUS
  <2>. QED
    BY <2>1, <2>2
<1>2. DOMAIN q = 1 .. Len(q) /\ Len(q) \in Nat
  OBVIOUS
<1>3. pieces \in Seq(Seq(Char))
  <2>. HIDE DEF E
  <2>. QED
    BY <1>1, <1>2
<1>4. DecodedBy(escapes, q) = FlattenSeq(pieces)
  BY Zenon DEF DecodedBy
<1>. HIDE DEF pieces
<1>. QED
  BY <1>3, <1>4, FlattenType

LEMMA UnescapedType ==
  ASSUME NEW s \in Seq(Char)
  PROVE  Unescaped(s) \in Seq(Char)
<1>0. {Hash, Quest, Colon, Dash} \subseteq Char
  BY SplitMarks
<1>. DEFINE a == ReplaceEach(s, <<Quest, Quest>>, <<Quest>>)
            b == ReplaceEach(a, <<Hash, Hash>>, <<Hash>>)
            c == ReplaceEach(b, <<Colon, Colon, Dash>>, <<Colon, Dash>>)
<1>1. Replaceable(Char, s, <<Quest, Quest>>, <<Quest>>)
  BY <1>0 DEF Replaceable
<1>2. a \in Seq(Char)
  BY <1>1, ReplaceEachType
<1>. HIDE DEF a
<1>3. Replaceable(Char, a, <<Hash, Hash>>, <<Hash>>)
  BY <1>0, <1>2 DEF Replaceable
<1>4. b \in Seq(Char)
  BY <1>3, ReplaceEachType
<1>. HIDE DEF b
<1>5. Replaceable(Char, b, <<Colon, Colon, Dash>>, <<Colon, Dash>>)
  BY <1>0, <1>4 DEF Replaceable
<1>6. c \in Seq(Char)
  BY <1>5, ReplaceEachType
<1>7. Unescaped(s) = c
  BY Zenon DEF Unescaped, a, b, c, Hash, Quest, Colon, Dash
<1>. QED
  BY <1>6, <1>7

\* The parts of a reading are pieces of the body, or not there.
PartOf(T, part) == part = None \/ part \in Seq(T)

LEMMA PieceType ==
  ASSUME NEW T, NEW s \in Seq(T), NEW i \in Nat, NEW j \in Nat, j <= Len(s)
  PROVE  SubSeq(s, i + 1, j) \in Seq(T)
<1>. DEFINE k == i + 1
<1>1. k \in Int /\ Len(s) \in Nat /\ \A x \in k .. j : s[x] \in T
  OBVIOUS
<1>2. SubSeq(s, k, j) \in Seq(T)
  <2>. HIDE DEF k
  <2>. QED
    BY <1>1
<1>. QED
  BY <1>2

LEMMA SeparatedType ==
  ASSUME NEW T, NEW s \in Seq(T)
  PROVE  PartOf(T, WithoutSeparator(s, 1))
<1>1. SubSeq(s, 1 + 1, Len(s)) \in Seq(T)
  BY PieceType
<1>. QED
  BY <1>1 DEF WithoutSeparator, PartOf

LEMMA CuttingParts ==
  ASSUME NEW T, NEW body \in Seq(T), NEW c \in Cuttings(body)
  PROVE  c[1] \in Seq(T) /\ c[2] \in Seq(T) /\ c[3] \in Seq(T)
<1>. DEFINE n == Len(body)
            Part(i, j) == SubSeq(body, i + 1, j)
            D == 0 .. n
            Starts(token) == {i \in 0 .. n - 1 : body[i + 1] = token}
            Space == (Starts("?") \cup Starts("#") \cup Starts(":") \cup {n})
                     \X (Starts("#") \cup Starts(":") \cup {n}) \X (Starts(":") \cup {n})
            Fits(x) ==
               /\ x[1] <= x[2] /\ x[2] <= x[3]
               /\ x[1] < x[2] => body[x[1] + 1] = "?"
               /\ x[2] < x[3] => body[x[2] + 1] = "#" /\ ~HasAt(body, x[2] + 1, <<"#", "#">>)
               /\ x[3] < n => IsDefaultAt(body, x[3] + 1)
               /\ IsEscapedPath(Part(0, x[1]))
               /\ x[1] < x[2] => \A p \in Parts(Part(x[1] + 1, x[2]), "&") : IsLegalPair(p)
            Pieces(x) == <<Part(0, x[1]), Part(x[1], x[2]), Part(x[2], x[3]), Part(x[3], n)>>
<1>1. Cuttings(body) = {Pieces(x) : x \in {y \in Space : Fits(y)}}
  BY Zenon DEF Cuttings
<1>. HIDE DEF Fits
<1>2. PICK x \in Space : c = Pieces(x)
  <2>. HIDE DEF Space, Pieces
  <2>. QED
    BY <1>1
<1>3. x[1] \in D /\ x[2] \in D /\ x[3] \in D /\ n \in Nat
  <2>1. \A token : Starts(token) \subseteq D
    OBVIOUS
  <2>2. n \in D
    OBVIOUS
  <2>. HIDE DEF Starts, D
  <2>. QED
    BY <2>1, <2>2
<1>4. Part(0, x[1]) \in Seq(T) /\ Part(x[1], x[2]) \in Seq(T) /\ Part(x[2], x[3]) \in Seq(T)
  <2>1. ASSUME NEW i \in D, NEW j \in D PROVE Part(i, j) \in Seq(T)
    <3>1. i \in Nat /\ j \in Nat /\ j <= Len(body)
      BY <1>3
    <3>. QED
      BY <3>1, PieceType
  <2>2. 0 \in D
    BY <1>3
  <2>. HIDE DEF D, Part
  <2>. QED
    BY <1>3, <2>1, <2>2
<1>. HIDE DEF Part
<1>. QED
  BY <1>2, <1>4

LEMMA ReadingParts ==
  ASSUME NEW T, NEW body \in Seq(T), NEW r \in Readings(body)
  PROVE  /\ \E p \in Seq(T) : r.path = Unescaped(p)
         /\ PartOf(T, r.query) /\ PartOf(T, r.field)
<1>1. PICK c \in Cuttings(body) :
        r = [path |-> Unescaped(c[1]), query |-> WithoutSeparator(c[2], 1),
             field |-> WithoutSeparator(c[3], 1), default |-> WithoutSeparator(c[4], 2)]
  BY DEF Readings
<1>2. c[1] \in Seq(T) /\ c[2] \in Seq(T) /\ c[3] \in Seq(T)
  BY <1>1, CuttingParts
<1>3. r.path = Unescaped(c[1]) /\ r.query = WithoutSeparator(c[2], 1)
      /\ r.field = WithoutSeparator(c[3], 1)
  BY <1>1
<1>. QED
  BY <1>2, <1>3, SeparatedType

-----------------------------------------------------------------------------
(* The text before a separator, and the text after it.                     *)

\* Where a text is cut.
IsCutAt(s, token, i) ==
  CutAtFirst(s, token) = [head |-> SubSeq(s, 1, i - 1), tail |-> SubSeq(s, i + 1, Len(s))]

LEMMA FirstCut ==
  ASSUME NEW T, NEW s \in Seq(T), NEW token
  PROVE  \/ /\ \A j \in 1 .. Len(s) : s[j] # token
            /\ CutAtFirst(s, token) = [head |-> s, tail |-> None]
         \/ \E i \in 1 .. Len(s) :
               /\ s[i] = token /\ \A j \in 1 .. i - 1 : s[j] # token
               /\ IsCutAt(s, token, i)
<1>1. CASE Contains(s, token)
  <2>1. \E j \in 1 .. Len(s) : s[j] = token
    BY <1>1 DEF Contains
  <2>2. PICK i \in 1 .. Len(s) : /\ i = IndexFrom(s, 1, token) /\ s[i] = token
                                 /\ \A j \in 1 .. i - 1 : s[j] # token
    <3>1. 1 \in Nat \ {0}
      OBVIOUS
    <3>. QED
      BY <2>1, <3>1, FirstOccurrence
  <2>3. CutAtFirst(s, token) = Cut(s, i, 1)
    BY <1>1, <2>2 DEF CutAtFirst
  <2>4. IsCutAt(s, token, i)
    BY <2>3, Zenon DEF Cut, IsCutAt
  <2>. QED
    BY <2>2, <2>4
<1>2. CASE ~Contains(s, token)
  <2>1. \A j \in 1 .. Len(s) : s[j] # token
    BY <1>2 DEF Contains
  <2>2. CutAtFirst(s, token) = [head |-> s, tail |-> None]
    BY <1>2, Zenon DEF CutAtFirst, Whole
  <2>. QED
    BY <2>1, <2>2
<1>. QED
  BY <1>1, <1>2

\* Put before a separator, a text without it is cut off again.
LEMMA CutOff ==
  ASSUME NEW T, NEW p \in Seq(T), NEW q \in Seq(T), NEW token \in T,
         \A j \in 1 .. Len(p) : p[j] # token
  PROVE  /\ CutAtFirst(p, token) = [head |-> p, tail |-> None]
         /\ CutAtFirst(p \o Cons(token, q), token) = [head |-> p, tail |-> q]
<1>1. CutAtFirst(p, token) = [head |-> p, tail |-> None]
  BY FirstCut
<1>. DEFINE c == Cons(token, q)
            s == p \o c
            k == Len(p)
<1>2. c \in Seq(T) /\ Len(c) = Len(q) + 1 /\ c[1] = token
      /\ \A j \in 1 .. Len(q) : c[j + 1] = q[j]
  BY DEF Cons
<1>. HIDE DEF c
<1>a. s \in Seq(T) /\ Len(s) = Len(p) + Len(c)
  <2>1. p \in Seq(T) /\ c \in Seq(T)
    <3>1. T \ {token} \subseteq T
      OBVIOUS
    <3>2. p \in Seq(T \ {token})
      OBVIOUS
    <3>. QED
      BY <1>2, <3>1, <3>2, SeqMonotonic
  <2>. QED
    BY <2>1, ConcatProperties
<1>b. k = Len(p) /\ k \in Nat /\ Len(q) \in Nat
  OBVIOUS
<1>3. s \in Seq(T) /\ Len(s) = k + 1 + Len(q) /\ k \in Nat /\ Len(q) \in Nat
  <2>. HIDE DEF s, k
  <2>. QED
    BY <1>a, <1>b, <1>2
<1>4. (\A j \in 1 .. k : s[j] = p[j]) /\ s[k + 1] = token
  BY <1>2
<1>5. \A j \in 1 .. Len(q) : s[k + 1 + j] = q[j]
  <2>. SUFFICES ASSUME NEW j \in 1 .. Len(q) PROVE s[k + 1 + j] = q[j]
    OBVIOUS
  <2>1. k + 1 + j \in 1 .. Len(s) /\ ~(k + 1 + j <= k) /\ k + 1 + j - k = j + 1
    BY <1>3
  <2>2. s[k + 1 + j] = c[k + 1 + j - k]
    BY <1>2, <2>1
  <2>. QED
    BY <1>2, <2>1, <2>2
<1>. HIDE DEF s
<1>6. PICK i \in 1 .. Len(s) :
        /\ s[i] = token /\ \A j \in 1 .. i - 1 : s[j] # token
        /\ IsCutAt(s, token, i)
  <2>1. k + 1 \in 1 .. Len(s)
    BY <1>3
  <2>. QED
    BY <1>3, <1>4, <2>1, FirstCut
<1>7. i = k + 1
  <2>1. ~(i < k + 1)
    <3>1. i < k + 1 => i \in 1 .. k
      BY <1>3, <1>6
    <3>2. i \in 1 .. k => s[i] = p[i] /\ p[i] # token
      BY <1>4
    <3>. HIDE DEF k
    <3>. QED
      BY <1>6, <3>1, <3>2
  <2>2. ~(i > k + 1)
    BY <1>3, <1>4, <1>6
  <2>. QED
    BY <1>3, <2>1, <2>2
<1>8. SubSeq(s, 1, i - 1) = p
  <2>. DEFINE h == SubSeq(s, 1, k)
  <2>1. i - 1 = k
    BY <1>3, <1>7
  <2>2. h \in Seq(T) /\ Len(h) = k /\ \A j \in 1 .. k : h[j] = s[j]
    BY <1>3
  <2>3. h = p
    <3>. HIDE DEF h
    <3>. QED
      BY <1>4, <2>2
  <2>. QED
    BY <2>1, <2>3
<1>9. SubSeq(s, i + 1, Len(s)) = q
  <2>. DEFINE a == k + 2
              n == Len(s)
              h == SubSeq(s, a, n)
  <2>1. i + 1 = a /\ a \in Nat \ {0} /\ n \in Nat /\ n = a + Len(q) - 1
    BY <1>3, <1>7
  <2>2. h \in Seq(T) /\ Len(h) = Len(q) /\ \A j \in 1 .. Len(q) : h[j] = s[a + j - 1]
    <3>. HIDE DEF a, n
    <3>1. \A x \in a .. n : s[x] \in T
      BY <1>3, <2>1 DEF n
    <3>2. h \in Seq(T) /\ Len(h) = IF a <= n THEN n - a + 1 ELSE 0
      BY <2>1, <3>1
    <3>3. \A j \in 1 .. n - a + 1 : h[j] = s[a + j - 1]
      BY <2>1
    <3>. QED
      BY <1>3, <2>1, <3>2, <3>3
  <2>3. \A j \in 1 .. Len(q) : h[j] = q[j]
    <3>1. \A j \in 1 .. Len(q) : a + j - 1 = k + 1 + j
      BY <1>3
    <3>. HIDE DEF h
    <3>. QED
      BY <1>5, <2>2, <3>1
  <2>4. h = q
    <3>. HIDE DEF h
    <3>. QED
      BY <2>2, <2>3
  <2>. QED
    BY <2>1, <2>4
<1>. QED
  BY <1>1, <1>6, <1>8, <1>9 DEF s, c, IsCutAt

\* What is before the first separator.
LEMMA HeadOfCut ==
  ASSUME NEW T, NEW s \in Seq(T), NEW token
  PROVE  LET h == CutAtFirst(s, token).head IN
         /\ h \in Seq(T) /\ Len(h) <= Len(s) /\ \A j \in 1 .. Len(h) : h[j] = s[j]
         /\ \A j \in 1 .. Len(s) : s[j] = token => Len(h) < j
<1>1. CASE /\ \A j \in 1 .. Len(s) : s[j] # token
           /\ CutAtFirst(s, token) = [head |-> s, tail |-> None]
  BY <1>1
<1>2. ASSUME NEW i \in 1 .. Len(s), \A j \in 1 .. i - 1 : s[j] # token, IsCutAt(s, token, i)
      PROVE  LET h == CutAtFirst(s, token).head IN
             /\ h \in Seq(T) /\ Len(h) <= Len(s) /\ \A j \in 1 .. Len(h) : h[j] = s[j]
             /\ \A j \in 1 .. Len(s) : s[j] = token => Len(h) < j
  <2>. DEFINE k == i - 1
              p == SubSeq(s, 1, k)
  <2>1. k \in Nat /\ k < Len(s) /\ Len(s) \in Nat
    OBVIOUS
  <2>2. p \in Seq(T) /\ Len(p) = k /\ \A j \in 1 .. k : p[j] = s[j]
    <3>. HIDE DEF k
    <3>. QED
      BY <2>1
  <2>3. CutAtFirst(s, token).head = p
    BY <1>2 DEF IsCutAt
  <2>4. \A j \in 1 .. Len(s) : s[j] = token => k < j
    BY <1>2
  <2>. HIDE DEF p
  <2>5. Len(p) <= Len(s) /\ (\A j \in 1 .. Len(p) : p[j] = s[j])
        /\ \A j \in 1 .. Len(s) : s[j] = token => Len(p) < j
    <3>. HIDE DEF k
    <3>. QED
      BY <2>1, <2>2, <2>4
  <2>. QED
    BY <2>2, <2>3, <2>5
<1>. QED
  BY <1>1, <1>2, FirstCut

\* Requests for other paths or other queries are not the same.
LEMMA RequestParts ==
  ASSUME NEW T, NEW p \in Seq(T), NEW q, NEW f, VaultRequest(p, q, f) # None
  PROVE  /\ VaultRequest(p, q, f).query = q
         /\ Len(VaultRequest(p, q, f).mount) + Len(VaultRequest(p, q, f).key) + 1 = Len(p)
<1>. DEFINE cut == CutAtFirst(p, Slash)
            g == IF f = None THEN <<>> ELSE f
            pairs == IF q \in {None, <<>>} THEN {} ELSE Parts(q, "&")
            IsRead(pair) ==
              LET kv == CutAtFirst(pair, "=")
              IN kv.head = <<"version">> /\ kv.tail # None /\ IsAtoi(kv.tail)
            refused == \E pair \in pairs : ~IsRead(pair)
            made == [mount |-> cut.head, key |-> cut.tail, query |-> q, field |-> g]
<1>1. VaultRequest(p, q, f) = IF cut.tail = None \/ refused THEN None ELSE made
  BY Zenon DEF VaultRequest, Slash
<1>. HIDE DEF refused, made, cut
<1>2. cut.tail # None /\ VaultRequest(p, q, f) = made
  BY <1>1
<1>3. PICK i \in 1 .. Len(p) : IsCutAt(p, Slash, i)
  <2>1. [head |-> p, tail |-> None].tail = None
    OBVIOUS
  <2>2. CutAtFirst(p, Slash) # [head |-> p, tail |-> None]
    BY <1>2, <2>1, Zenon DEF cut
  <2>3. \E i \in 1 .. Len(p) : IsCutAt(p, Slash, i)
    BY <2>2, FirstCut
  <2>. QED
    BY <2>3
<1>4. cut.head = SubSeq(p, 1, i - 1) /\ cut.tail = SubSeq(p, i + 1, Len(p))
  BY <1>3 DEF IsCutAt, cut
<1>5. Len(cut.head) + Len(cut.tail) + 1 = Len(p)
  <2>. DEFINE a == i - 1
              b == i + 1
              n == Len(p)
  <2>1. a \in Nat /\ b \in Nat \ {0} /\ n \in Nat /\ a < n /\ b <= n + 1 /\ b = a + 2
    OBVIOUS
  <2>2. Len(SubSeq(p, 1, a)) = a
    <3>. HIDE DEF a
    <3>. QED
      BY <2>1
  <2>3. Len(SubSeq(p, b, n)) = n - b + 1
    <3>1. \A x \in b .. n : p[x] \in T
      BY <2>1
    <3>. HIDE DEF b, n
    <3>. QED
      BY <2>1, <3>1
  <2>4. Len(cut.head) = a /\ Len(cut.tail) = n - b + 1
    BY <1>4, <2>2, <2>3
  <2>. HIDE DEF a, b
  <2>. QED
    BY <2>1, <2>4
<1>6. made.mount = cut.head /\ made.key = cut.tail /\ made.query = q
  BY DEF made
<1>. QED
  BY <1>2, <1>5, <1>6

LEMMA RequestsDiffer ==
  ASSUME NEW T, NEW p1 \in Seq(T), NEW q1, NEW f1, NEW p2 \in Seq(T), NEW q2, NEW f2,
         VaultRequest(p1, q1, f1) # None,
         Len(p1) # Len(p2) \/ q1 # q2
  PROVE  VaultRequest(p2, q2, f2) # VaultRequest(p1, q1, f1)
<1>. SUFFICES ASSUME VaultRequest(p2, q2, f2) = VaultRequest(p1, q1, f1) PROVE FALSE
  OBVIOUS
<1>1. VaultRequest(p1, q1, f1).query = q1
      /\ Len(VaultRequest(p1, q1, f1).mount) + Len(VaultRequest(p1, q1, f1).key) + 1 = Len(p1)
  BY RequestParts
<1>2. VaultRequest(p2, q2, f2).query = q2
      /\ Len(VaultRequest(p2, q2, f2).mount) + Len(VaultRequest(p2, q2, f2).key) + 1 = Len(p2)
  BY RequestParts
<1>. QED
  BY <1>1, <1>2

-----------------------------------------------------------------------------
(* The path that is composed of parts, and split again.                    *)

\* The parts of a path, put together.
WithPart(p, token, part) == IF part = None THEN p ELSE p \o Cons(token, part)
Composed(p, q, f) == WithPart(WithPart(p, Quest, q), Hash, f)

LEMMA WithPartType ==
  ASSUME NEW T, NEW p \in Seq(T), NEW token \in T, NEW part, PartOf(T, part)
  PROVE  /\ WithPart(p, token, part) \in Seq(T)
         /\ Len(p) <= Len(WithPart(p, token, part))
         /\ \A j \in 1 .. Len(p) : WithPart(p, token, part)[j] = p[j]
<1>1. CASE part = None
  BY <1>1 DEF WithPart
<1>2. CASE part # None
  <2>. DEFINE c == Cons(token, part)
  <2>1. c \in Seq(T)
    BY <1>2 DEF PartOf, Cons
  <2>2. WithPart(p, token, part) = p \o c
    BY <1>2, Zenon DEF WithPart
  <2>. HIDE DEF c
  <2>. QED
    BY <2>1, <2>2
<1>. QED
  BY <1>1, <1>2

LEMMA WithPartCut ==
  ASSUME NEW T, NEW token \in T, NEW p \in Seq(T \ {token}), NEW part, PartOf(T, part)
  PROVE  CutAtFirst(WithPart(p, token, part), token) = [head |-> p, tail |-> part]
<1>1. p \in Seq(T) /\ \A j \in 1 .. Len(p) : p[j] # token
  <2>1. T \ {token} \subseteq T
    OBVIOUS
  <2>2. p \in Seq(T)
    BY <2>1, SeqMonotonic
  <2>. QED
    BY <2>2
<1>2. CASE part = None
  <2>1. <<>> \in Seq(T)
    OBVIOUS
  <2>2. CutAtFirst(p, token) = [head |-> p, tail |-> None]
    BY <1>1, <2>1, CutOff
  <2>. QED
    BY <1>2, <2>2 DEF WithPart
<1>3. CASE part # None
  <2>1. part \in Seq(T)
    BY <1>3 DEF PartOf
  <2>2. CutAtFirst(p \o Cons(token, part), token) = [head |-> p, tail |-> part]
    BY <1>1, <2>1, CutOff
  <2>. QED
    BY <1>3, <2>2, Zenon DEF WithPart
<1>. QED
  BY <1>2, <1>3

LEMMA ParsedParts ==
  ASSUME NEW s, NEW h, NEW f, NEW p, NEW q,
         CutAtFirst(s, Hash) = [head |-> h, tail |-> f],
         CutAtFirst(h, Quest) = [head |-> p, tail |-> q]
  PROVE  ParseVaultPath(s) = VaultRequest(p, q, f)
<1>1. CutAtFirst(s, Hash).head = h /\ CutAtFirst(s, Hash).tail = f
  OBVIOUS
<1>2. CutAtFirst(h, Quest).head = p /\ CutAtFirst(h, Quest).tail = q
  OBVIOUS
<1>. QED
  BY <1>1, <1>2, Zenon DEF ParseVaultPath, Hash, Quest

\* Split at its own separators, a path comes to its parts.
LEMMA SplitAsMeant ==
  ASSUME NEW T, {Hash, Quest} \subseteq T,
         NEW p \in Seq(T \ {Hash, Quest}), NEW q, PartOf(T \ {Hash}, q), NEW f, PartOf(T, f)
  PROVE  ParseVaultPath(Composed(p, q, f)) = VaultRequest(p, q, f)
<1>. DEFINE h == WithPart(p, Quest, q)
            U == T \ {Hash}
<1>1. Quest \in U /\ T \ {Hash, Quest} \subseteq U /\ U \subseteq T
      /\ U \ {Quest} = T \ {Hash, Quest}
  BY SplitMarks
<1>2. p \in Seq(U) /\ p \in Seq(U \ {Quest}) /\ PartOf(U, q)
  BY <1>1, SeqMonotonic
<1>. HIDE DEF U
<1>3. h \in Seq(U)
  BY <1>1, <1>2, WithPartType
<1>4. CutAtFirst(h, Quest) = [head |-> p, tail |-> q]
  BY <1>1, <1>2, WithPartCut
<1>. HIDE DEF h
<1>5. CutAtFirst(WithPart(h, Hash, f), Hash) = [head |-> h, tail |-> f]
  <2>1. h \in Seq(T \ {Hash}) /\ Hash \in T
    BY <1>3 DEF U
  <2>. QED
    BY <2>1, WithPartCut
<1>6. Composed(p, q, f) = WithPart(h, Hash, f)
  BY Zenon DEF Composed, h
<1>. QED
  BY <1>4, <1>5, <1>6, ParsedParts

\* A separator in the path leaves less of it.
LEMMA SplitInPath ==
  ASSUME NEW T, {Hash, Quest} \subseteq T,
         NEW p \in Seq(T), NEW q, PartOf(T, q), NEW f, PartOf(T, f),
         NEW m \in 1 .. Len(p), p[m] \in {Hash, Quest}
  PROVE  \E p2 \in Seq(T) : \E q2, f2 :
            Len(p2) < Len(p) /\ ParseVaultPath(Composed(p, q, f)) = VaultRequest(p2, q2, f2)
<1>. DEFINE s == Composed(p, q, f)
            w == WithPart(p, Quest, q)
<1>0. Quest \in T /\ Hash \in T
  OBVIOUS
<1>1. w \in Seq(T) /\ Len(p) <= Len(w) /\ \A j \in 1 .. Len(p) : w[j] = p[j]
  BY <1>0, WithPartType
<1>. HIDE DEF w
<1>2. s = WithPart(w, Hash, f)
  BY Zenon DEF Composed, w
<1>. HIDE DEF s
<1>3. s \in Seq(T) /\ Len(w) <= Len(s) /\ \A j \in 1 .. Len(w) : s[j] = w[j]
  <2>1. w \in Seq(T)
    BY <1>1
  <2>. DEFINE x == WithPart(w, Hash, f)
  <2>2. x \in Seq(T) /\ Len(w) <= Len(x) /\ \A j \in 1 .. Len(w) : x[j] = w[j]
    BY <1>0, <2>1, WithPartType
  <2>. HIDE DEF x
  <2>3. s = x
    BY <1>2 DEF x
  <2>. QED
    BY <2>2, <2>3
<1>4. m \in 1 .. Len(s) /\ s[m] \in {Hash, Quest} /\ m <= Len(p)
  BY <1>1, <1>3
<1>. DEFINE h == CutAtFirst(s, Hash).head
            t == CutAtFirst(s, Hash).tail
            p2 == CutAtFirst(h, Quest).head
            q2 == CutAtFirst(h, Quest).tail
<1>5. /\ h \in Seq(T) /\ Len(h) <= Len(s) /\ \A j \in 1 .. Len(h) : h[j] = s[j]
      /\ \A j \in 1 .. Len(s) : s[j] = Hash => Len(h) < j
  BY <1>3, HeadOfCut
<1>6. /\ p2 \in Seq(T) /\ Len(p2) <= Len(h)
      /\ \A j \in 1 .. Len(h) : h[j] = Quest => Len(p2) < j
  <2>. HIDE DEF h
  <2>. QED
    BY <1>5, HeadOfCut
<1>7. ParseVaultPath(s) = VaultRequest(p2, q2, t)
  BY Zenon DEF ParseVaultPath, Hash, Quest
<1>. HIDE DEF h, t, p2, q2
<1>8. Len(p2) < m
  <2>0. Len(p2) \in Nat /\ Len(h) \in Nat /\ m \in Nat
    BY <1>5, <1>6
  <2>1. CASE s[m] = Hash
    BY <1>4, <1>5, <1>6, <2>0, <2>1
  <2>2. CASE s[m] = Quest /\ m <= Len(h)
    <3>1. m \in 1 .. Len(h) /\ h[m] = Quest
      BY <1>5, <2>0, <2>2
    <3>. QED
      BY <1>6, <3>1
  <2>3. CASE ~(m <= Len(h))
    BY <1>6, <2>0, <2>3
  <2>. QED
    BY <1>4, <2>1, <2>2, <2>3
<1>9. Len(p2) < Len(p)
  BY <1>4, <1>6, <1>8
<1>. QED
  BY <1>6, <1>7, <1>9 DEF s

\* A # in the query leaves less of it.
LEMMA SplitInQuery ==
  ASSUME NEW T, {Hash, Quest} \subseteq T,
         NEW p \in Seq(T \ {Hash, Quest}), NEW q \in Seq(T), NEW f, PartOf(T, f),
         q \notin Seq(T \ {Hash})
  PROVE  \E q2 \in Seq(T) : \E f2 :
            /\ q2 # q
            /\ ParseVaultPath(WithPart(p \o Cons(Quest, q), Hash, f)) = VaultRequest(p, q2, f2)
<1>. DEFINE U == T \ {Hash}
            V == T \ {Hash, Quest}
<1>0. Hash \in T /\ Quest \in T /\ Quest \in U /\ V \subseteq T /\ V \subseteq U /\ V = U \ {Quest}
      /\ U \subseteq T
  BY SplitMarks
<1>1. PICK a \in Seq(U), r \in Seq(T) : q = a \o Cons(Hash, r)
  <2>1. PartsAt(T, Hash, q)
    BY CutText, Zenon
  <2>. QED
    BY <2>1, Zenon DEF PartsAt
<1>2. a \in Seq(T) /\ p \in Seq(T) /\ p \in Seq(U) /\ p \in Seq(V)
  <2>1. p \in Seq(V) /\ a \in Seq(U)
    OBVIOUS
  <2>. HIDE DEF U, V
  <2>. QED
    BY <1>0, <2>1, SeqMonotonic
<1>. HIDE DEF U, V
<1>. DEFINE x == Cons(Quest, a)
            c == Cons(Hash, r)
            b == Cons(Quest, q)
            h == p \o x
<1>3. x \in Seq(T) /\ x \in Seq(U) /\ c \in Seq(T) /\ b \in Seq(T) /\ Len(c) = Len(r) + 1
  BY <1>0, <1>1, <1>2, ConsLaws
<1>4. b = x \o c
  <2>1. Joins(q, a, c)
    BY <1>1 DEF Joins
  <2>. HIDE DEF c
  <2>2. Joins(b, x, c)
    BY <1>0, <1>2, <1>3, <2>1, ConsJoins
  <2>. HIDE DEF b, x
  <2>. QED
    BY <2>2 DEF Joins
<1>5. a # q
  <2>. HIDE DEF c
  <2>1. q = a \o c
    BY <1>1 DEF c
  <2>2. Len(q) = Len(a) + Len(c) /\ Len(c) > 0 /\ Len(a) \in Nat
    BY <1>2, <1>3, <2>1
  <2>. QED
    BY <2>2
<1>6. h \in Seq(U) /\ h \in Seq(T)
  <2>. HIDE DEF x
  <2>. QED
    BY <1>2, <1>3
<1>7. p \o b = h \o c
  <2>. HIDE DEF x, c, b
  <2>1. Texts(T, p, x, c)
    BY <1>2, <1>3 DEF Texts
  <2>2. Regrouped(p, x, c)
    BY <2>1, RegroupTexts, Zenon
  <2>. QED
    BY <1>4, <2>2, Zenon DEF Regrouped
<1>. DEFINE g == IF f = None THEN r ELSE r \o Cons(Hash, f)
<1>8. g \in Seq(T)
  <2>1. f # None => Cons(Hash, f) \in Seq(T)
    BY <1>0, ConsLaws DEF PartOf
  <2>. QED
    BY <1>1, <2>1
<1>9. WithPart(p \o b, Hash, f) = h \o Cons(Hash, g)
  <2>1. CASE f = None
    <3>1. WithPart(p \o b, Hash, f) = p \o b
      BY <2>1 DEF WithPart
    <3>2. g = r
      BY <2>1
    <3>. QED
      BY <1>7, <3>1, <3>2, Zenon
  <2>2. CASE f # None
    <3>. DEFINE d == Cons(Hash, f)
    <3>1. d \in Seq(T)
      BY <1>0, <2>2, ConsLaws DEF PartOf
    <3>2. WithPart(p \o b, Hash, f) = (p \o b) \o d
      BY <2>2, Zenon DEF WithPart
    <3>3. g = r \o d
      BY <2>2
    <3>. HIDE DEF h, d, g
    <3>4. (h \o c) \o d = h \o (c \o d)
      <4>. HIDE DEF c
      <4>1. Texts(T, h, c, d)
        BY <1>3, <1>6, <3>1 DEF Texts
      <4>2. Regrouped(h, c, d)
        BY <4>1, RegroupTexts, Zenon
      <4>. QED
        BY <4>2, Zenon DEF Regrouped
    <3>5. c \o d = Cons(Hash, g)
      <4>1. Joins(g, r, d)
        BY <3>3 DEF Joins
      <4>2. Joins(Cons(Hash, g), c, d)
        BY <1>0, <1>1, <1>8, <3>1, <4>1, ConsJoins
      <4>. QED
        BY <4>2 DEF Joins
    <3>. QED
      BY <1>7, <3>2, <3>4, <3>5, Zenon
  <2>. QED
    BY <2>1, <2>2
<1>. HIDE DEF g
<1>10. CutAtFirst(h \o Cons(Hash, g), Hash) = [head |-> h, tail |-> g]
  <2>. HIDE DEF h
  <2>1. \A j \in 1 .. Len(h) : h[j] # Hash
    BY <1>6 DEF U
  <2>. QED
    BY <1>0, <1>6, <1>8, <2>1, CutOff
<1>11. CutAtFirst(h, Quest) = [head |-> p, tail |-> a]
  <2>1. (\A j \in 1 .. Len(p) : p[j] # Quest) /\ a \in Seq(U)
    BY <1>0, <1>1, <1>2
  <2>. QED
    BY <1>0, <1>2, <2>1, CutOff
<1>12. ParseVaultPath(h \o Cons(Hash, g)) = VaultRequest(p, a, g)
  <2>. HIDE DEF h
  <2>. QED
    BY <1>10, <1>11, ParsedParts
<1>13. ParseVaultPath(WithPart(p \o b, Hash, f)) = VaultRequest(p, a, g)
  BY <1>9, <1>12, Zenon
<1>. QED
  BY <1>2, <1>5, <1>13 DEF b

\* Which parts are found again.
LEMMA FoundAgain ==
  ASSUME NEW T, {Hash, Quest} \subseteq T, None \notin Seq(T),
         NEW p \in Seq(T), NEW q, PartOf(T, q), NEW f, PartOf(T, f)
  PROVE  LET again == Range(p) \cap {Hash, Quest} # {} \/ (q # None /\ Contains(q, Hash))
             asked == ParseVaultPath(Composed(p, q, f))
             meant == VaultRequest(p, q, f)
         IN /\ ~again => asked = meant
            /\ again /\ meant # None => asked # meant
<1>. DEFINE inPath == Range(p) \cap {Hash, Quest} # {}
            inQuery == q # None /\ Contains(q, Hash)
            asked == ParseVaultPath(Composed(p, q, f))
            meant == VaultRequest(p, q, f)
<1>1. CASE ~inPath /\ ~inQuery
  <2>0. \A j \in 1 .. Len(p) : p[j] \in T /\ p[j] \in Range(p)
    BY DEF Range
  <2>1. \A j \in 1 .. Len(p) : p[j] \in T \ {Hash, Quest}
    BY <1>1, <2>0
  <2>2. p \in Seq(T \ {Hash, Quest})
    BY <2>1
  <2>3. PartOf(T \ {Hash}, q)
    <3>1. CASE q = None
      BY <3>1 DEF PartOf
    <3>2. CASE q # None
      <4>1. q \in Seq(T) /\ \A j \in 1 .. Len(q) : q[j] # Hash
        BY <1>1, <3>2 DEF PartOf, Contains
      <4>2. \A j \in 1 .. Len(q) : q[j] \in T \ {Hash}
        BY <4>1
      <4>3. q \in Seq(T \ {Hash})
        BY <4>1, <4>2
      <4>. QED
        BY <4>3 DEF PartOf
    <3>. QED
      BY <3>1, <3>2
  <2>4. asked = meant
    <3>. HIDE DEF inPath, inQuery
    <3>. QED
      BY <2>2, <2>3, SplitAsMeant
  <2>. QED
    BY <1>1, <2>4
<1>2. CASE inPath
  <2>1. PICK m \in 1 .. Len(p) : p[m] \in {Hash, Quest}
    BY <1>2 DEF Range
  <2>2. \E p2 \in Seq(T) : \E q2, f2 :
           Len(p2) < Len(p) /\ asked = VaultRequest(p2, q2, f2)
    BY <2>1, SplitInPath
  <2>. HIDE DEF asked, inPath, inQuery
  <2>3. meant # None => asked # meant
    <3>1. PICK p2 \in Seq(T) : \E q2, f2 :
             Len(p2) < Len(p) /\ asked = VaultRequest(p2, q2, f2)
      BY <2>2
    <3>2. PICK q2, f2 : Len(p2) < Len(p) /\ asked = VaultRequest(p2, q2, f2)
      BY <3>1
    <3>3. Len(p) # Len(p2)
      BY <3>2
    <3>. QED
      BY <3>2, <3>3, RequestsDiffer
  <2>. QED
    BY <1>2, <2>3 DEF asked, inPath, inQuery
<1>3. CASE ~inPath /\ inQuery
  <2>0. \A j \in 1 .. Len(p) : p[j] \in T /\ p[j] \in Range(p)
    BY DEF Range
  <2>1. \A j \in 1 .. Len(p) : p[j] \in T \ {Hash, Quest}
    BY <1>3, <2>0
  <2>2. p \in Seq(T \ {Hash, Quest})
    BY <2>1
  <2>3. q \in Seq(T) /\ \E j \in 1 .. Len(q) : q[j] = Hash
    BY <1>3 DEF PartOf, Contains
  <2>4. q \notin Seq(T \ {Hash})
    BY <2>3
  <2>5. asked = ParseVaultPath(WithPart(p \o Cons(Quest, q), Hash, f))
    BY <1>3, Zenon DEF Composed, WithPart
  <2>. HIDE DEF asked, inPath, inQuery
  <2>6. PICK q2 \in Seq(T) : \E f2 : q2 # q /\ asked = VaultRequest(p, q2, f2)
    BY <2>2, <2>3, <2>4, <2>5, SplitInQuery
  <2>7. meant # None => asked # meant
    BY <2>6, RequestsDiffer
  <2>. QED
    BY <1>3, <2>7 DEF asked, inPath, inQuery
<1>. QED
  BY <1>1, <1>2, <1>3

-----------------------------------------------------------------------------
(* What a reading asks for.                                                *)

LEMMA MeantType ==
  ASSUME NEW r, r.query \in Seq(Char)
  PROVE  MeantQuery(r) \in Seq(Char)
<1>1. \A t \in DOMAIN PercentOnly : PercentOnly[t] \in Seq(Char)
  BY EscapesAssumption DEF PercentOnly
<1>. DEFINE q == r.query
            e == PercentOnly
<1>2. q \in Seq(Char) /\ MeantQuery(r) = DecodedBy(e, q)
  BY Zenon DEF MeantQuery
<1>. HIDE DEF q, e
<1>3. DecodedBy(e, q) \in Seq(Char)
  BY <1>1, <1>2, DecodedType DEF e
<1>. QED
  BY <1>2, <1>3

\* What a reading of a reference asks for, and what its path is composed of.
LEMMA AskedParts ==
  ASSUME NEW body \in Seq(Char), NEW r \in Readings(body)
  PROVE  \E p \in Seq(Char) : \E q, f :
            /\ PartOf(Char, q) /\ PartOf(Char, f)
            /\ CanonicalPath(r) = Composed(p, q, f)
            /\ Asked(r) = VaultRequest(p, q, f)
            /\ SplitAgain(r) <=> Range(p) \cap {Hash, Quest} # {} \/ (q # None /\ Contains(q, Hash))
<1>. DEFINE p == r.path
            q == IF r.query = None THEN None ELSE MeantQuery(r)
            c == ReplaceEach(r.field, <<Hash, Hash>>, <<Hash>>)
            f == IF r.field = None THEN None ELSE c
<1>0. Hash \in Char /\ Quest \in Char /\ Hash # Quest /\ None \notin Seq(Char)
  BY SplitMarks, CharAssumption
<1>1. p \in Seq(Char) /\ PartOf(Char, r.query) /\ PartOf(Char, r.field)
  BY ReadingParts, UnescapedType
<1>2. PartOf(Char, q) /\ (q = None <=> r.query = None)
  <2>1. CASE r.query = None
    BY <2>1 DEF PartOf
  <2>2. CASE r.query # None
    <3>1. MeantQuery(r) \in Seq(Char)
      BY <1>1, <2>2, MeantType DEF PartOf
    <3>. QED
      BY <1>0, <2>2, <3>1 DEF PartOf
  <2>. QED
    BY <2>1, <2>2
<1>3. PartOf(Char, f) /\ (f = None <=> r.field = None)
  <2>1. CASE r.field = None
    BY <2>1 DEF PartOf
  <2>2. CASE r.field # None
    <3>1. Replaceable(Char, r.field, <<Hash, Hash>>, <<Hash>>)
      BY <1>0, <1>1, <2>2 DEF PartOf, Replaceable
    <3>2. c \in Seq(Char)
      BY <3>1, ReplaceEachType
    <3>. HIDE DEF c
    <3>. QED
      BY <1>0, <2>2, <3>2 DEF PartOf
  <2>. QED
    BY <2>1, <2>2
<1>4. Asked(r) = VaultRequest(p, q, f)
  BY Zenon DEF Asked, Hash
<1>5. SplitAgain(r) <=> Range(p) \cap {Hash, Quest} # {} \/ (q # None /\ Contains(q, Hash))
  <2>1. SplitAgain(r) <=> Range(p) \cap {Hash, Quest} # {}
                          \/ (r.query # None /\ Contains(MeantQuery(r), Hash))
    BY Zenon DEF SplitAgain, Hash, Quest
  <2>2. r.query # None => q = MeantQuery(r)
    OBVIOUS
  <2>. HIDE DEF q, p
  <2>. QED
    BY <1>2, <2>1, <2>2, Zenon
<1>6. CanonicalPath(r) = Composed(p, q, f)
  <2>. DEFINE x == IF r.query = None THEN <<>> ELSE Cons(Quest, MeantQuery(r))
              y == IF r.field = None THEN <<>> ELSE Cons(Hash, c)
              w == WithPart(p, Quest, q)
  <2>1. CanonicalPath(r) = p \o x \o y
    BY Zenon DEF CanonicalPath, Cons, Hash, Quest
  <2>2. p \o x = w
    <3>1. CASE r.query = None
      <4>1. w = p
        BY <3>1 DEF WithPart
      <4>2. p \o <<>> = p
        BY <1>1, ConcatEmptySeq
      <4>. QED
        BY <3>1, <4>1, <4>2, Zenon
    <3>2. CASE r.query # None
      <4>1. w = p \o Cons(Quest, q)
        BY <1>2, <3>2, Zenon DEF WithPart
      <4>2. x = Cons(Quest, q)
        BY <3>2, Zenon
      <4>. QED
        BY <4>1, <4>2, Zenon
    <3>. QED
      BY <3>1, <3>2
  <2>3. w \in Seq(Char)
    BY <1>0, <1>1, <1>2, WithPartType
  <2>. HIDE DEF w, x
  <2>4. w \o y = WithPart(w, Hash, f)
    <3>1. CASE r.field = None
      <4>1. WithPart(w, Hash, f) = w
        BY <1>3, <3>1, Zenon DEF WithPart
      <4>2. w \o <<>> = w
        BY <2>3, ConcatEmptySeq
      <4>. QED
        BY <3>1, <4>1, <4>2, Zenon
    <3>2. CASE r.field # None
      <4>1. WithPart(w, Hash, f) = w \o Cons(Hash, f)
        BY <1>3, <3>2, Zenon DEF WithPart
      <4>2. y = Cons(Hash, f)
        BY <3>2, Zenon
      <4>. QED
        BY <4>1, <4>2, Zenon
    <3>. QED
      BY <3>1, <3>2
  <2>5. Composed(p, q, f) = WithPart(w, Hash, f)
    BY Zenon DEF Composed, w
  <2>. QED
    BY <2>1, <2>2, <2>4, <2>5, Zenon
<1>. HIDE DEF p, q, f
<1>. QED
  BY <1>1, <1>2, <1>3, <1>4, <1>5, <1>6

LEMMA BodyType ==
  ASSUME NEW text \in Seq(Char), IsWholeRef(text), Len(Inner(text)) >= 2
  PROVE  SubSeq(Inner(text), 3, Len(Inner(text))) \in Seq(Char)
<1>. DEFINE i == Inner(text)
<1>1. i \in Seq(Char)
  BY InnerHasNoBrace
<1>. HIDE DEF i
<1>2. SubSeq(i, 2 + 1, Len(i)) \in Seq(Char)
  BY <1>1, PieceType
<1>. QED
  BY <1>2 DEF i

\* However a reference is written, the adapter's second split of the path
\* finds the mount, the key, the query and the field that the reference means
\* - and asks for something else exactly when an escape has put a # or a ? where
\* the adapter splits (vault/source.go:427-489, secret_grammar.go:84-118).
THEOREM VaultReadsAsMeantHolds == Spec => []VaultReadsAsMeant
<1>1. Inv => VaultReadsAsMeant
  <2>. SUFFICES ASSUME Inv, IsBodyCase, NEW r \in LegalReadings,
                       Agrees(ParseSecretRef(Inner(leaf.text)), r)
                PROVE  LET asked == ParseVaultPath(ParseSecretRef(Inner(leaf.text)).path) IN
                       /\ ~SplitAgain(r) => asked = Asked(r)
                       /\ SplitAgain(r) /\ Asked(r) # None => asked # Asked(r)
    BY Zenon DEF VaultReadsAsMeant
  <2>1. leaf.text \in Seq(Char)
    BY CasesAssumption DEF Inv, Sound
  <2>2. Body \in Seq(Char)
    BY <2>1, BodyType DEF IsBodyCase, Body
  <2>3. r \in Readings(Body)
    BY DEF LegalReadings
  <2>4. ParseSecretRef(Inner(leaf.text)).path = CanonicalPath(r)
    BY Zenon DEF Agrees
  <2>. DEFINE AskedBy(p, q, f) ==
            /\ PartOf(Char, q) /\ PartOf(Char, f)
            /\ CanonicalPath(r) = Composed(p, q, f)
            /\ Asked(r) = VaultRequest(p, q, f)
            /\ SplitAgain(r) <=> Range(p) \cap {Hash, Quest} # {} \/ (q # None /\ Contains(q, Hash))
  <2>a. PICK p \in Seq(Char) : \E q, f : AskedBy(p, q, f)
    BY <2>2, <2>3, AskedParts
  <2>5. PICK q, f : AskedBy(p, q, f)
    BY <2>a
  <2>6. {Hash, Quest} \subseteq Char /\ None \notin Seq(Char)
    BY SplitMarks, CharAssumption
  <2>7. LET again == Range(p) \cap {Hash, Quest} # {} \/ (q # None /\ Contains(q, Hash))
            asked == ParseVaultPath(Composed(p, q, f))
            meant == VaultRequest(p, q, f)
        IN /\ ~again => asked = meant
           /\ again /\ meant # None => asked # meant
    BY <2>5, <2>6, FoundAgain
  <2>. QED
    BY <2>4, <2>5, <2>7, Zenon
<1>. QED
  BY InitSound, NextSound, <1>1, PTL DEF Spec

Plus == "+"
Amp == "&"
Equal == "="

\* The marks the grammar tells apart.
LEMMA ReadMarks ==
  /\ Hash # Quest /\ Hash # Colon /\ Hash # Dash /\ Quest # Colon /\ Quest # Dash /\ Colon # Dash
  /\ Colon # Amp /\ Hash # Amp /\ Plus # Amp /\ Plus # Equal /\ Colon # Equal /\ Hash # Equal
  /\ {Colon, Quest, Hash, Plus} \cap Lower = {}
<1>1. /\ Hash # Quest /\ Hash # Colon /\ Hash # Dash /\ Quest # Colon /\ Quest # Dash
      /\ Colon # Dash
  BY Zenon DEF Hash, Quest, Colon, Dash
<1>2. /\ Colon # Amp /\ Hash # Amp /\ Plus # Amp /\ Plus # Equal /\ Colon # Equal /\ Hash # Equal
  BY Zenon DEF Hash, Colon, Amp, Plus, Equal
<1>3. {Colon, Quest, Hash, Plus} \cap Lower = {}
  BY GrammarAssumption, Zenon DEF Colon, Quest, Hash, Plus
<1>. QED
  BY <1>1, <1>2, <1>3, Zenon

-----------------------------------------------------------------------------
(* Scans that come to one value: a position, or whether a text is escaped. *)

\* A function over positions that looks only ahead.
LooksAhead(top, Val, Step) ==
  /\ top \in Nat /\ Val # {}
  /\ Step \in [1 .. top -> [[1 .. top -> Val] -> Val]]
  /\ \A i \in 1 .. top : \A f, g \in [1 .. top -> Val] :
        (\A j \in 1 .. top : j > i => f[j] = g[j]) => Step[i][f] = Step[i][g]

\* A function that looks only ahead, taken from the last place back, is a recursion.
LEMMA LookingAhead ==
  ASSUME NEW top, NEW Val, NEW Step, LooksAhead(top, Val, Step)
  PROVE  \E f \in [1 .. top -> Val] : \A i \in 1 .. top : f[i] = Step[i][f]
<1>. DEFINE D == 1 .. top
            m == [i \in D |-> top - i]
<1>1. top \in Nat /\ Val # {}
  BY DEF LooksAhead
<1>2. m \in [D -> Nat] /\ (\A i \in D : m[i] <= top) /\ \A i, j \in D : m[j] < m[i] <=> j > i
  BY <1>1
<1>3. Step \in [D -> [[D -> Val] -> Val]]
  BY DEF LooksAhead
<1>4. ASSUME NEW i \in D, NEW f \in [D -> Val], NEW g \in [D -> Val],
             \A y \in D : m[y] < m[i] => f[y] = g[y]
      PROVE  Step[i][f] = Step[i][g]
  <2>1. \A j \in D : j > i => f[j] = g[j]
    BY <1>2, <1>4
  <2>. QED
    BY <2>1 DEF LooksAhead
<1>. HIDE DEF D, m
<1>5. IsRecursion(D, Val, m, Step)
  BY <1>1, <1>2, <1>3, <1>4 DEF IsRecursion
<1>6. \E f \in [D -> Val] : \A i \in D : f[i] = Step[i][f]
  BY <1>5, Recursion
<1>. QED
  BY <1>6 DEF D

\* The turn of FirstSingle at position i, and the whole scan.
Singles(s, token, i, f) ==
  IF i > Len(s) THEN 0
  ELSE IF HasAt(s, i, <<token, token>>) THEN f[i + 2]
  ELSE IF s[i] = token THEN i
  ELSE f[i + 1]
SinglesScan(s, token, f) == \A i \in 1 .. Len(s) + 1 : f[i] = Singles(s, token, i, f)

\* A pair has room where a step of two stays inside the text.
LEMMA PairFits ==
  ASSUME NEW T, NEW s \in Seq(T), NEW i \in 1 .. Len(s), NEW token, HasAt(s, i, <<token, token>>)
  PROVE  i + 2 \in 1 .. Len(s) + 1
<1>1. i + 1 <= Len(s) /\ Len(s) \in Nat
  BY HasTwoAt
<1>. QED
  BY <1>1

\* FirstSingle is a scan that looks only ahead.
LEMMA FirstSingleScans ==
  ASSUME NEW T, NEW s \in Seq(T), NEW token
  PROVE  \E f \in [1 .. Len(s) + 1 -> 0 .. Len(s)] :
            SinglesScan(s, token, f) /\ FirstSingle(s, token) = f[1]
<1>. DEFINE top == Len(s) + 1
            D == 1 .. top
            Val == 0 .. Len(s)
            Step == [i \in D |-> [f \in [D -> Val] |-> Singles(s, token, i, f)]]
            Def(f) == f = [i \in D |-> Singles(s, token, i, f)]
            v == CHOOSE f : Def(f)
<1>1. Len(s) \in Nat /\ top \in Nat /\ Val # {}
  <2>1. 0 \in Val
    OBVIOUS
  <2>. QED
    BY <2>1
<1>2. ASSUME NEW i \in D, ~(i > Len(s))
      PROVE  /\ i \in 1 .. Len(s) /\ i \in Val /\ i + 1 \in D /\ i + 1 > i /\ i + 2 > i
             /\ HasAt(s, i, <<token, token>>) => i + 2 \in D
  <2>1. i \in 1 .. Len(s)
    BY <1>2
  <2>2. HasAt(s, i, <<token, token>>) => i + 2 \in 1 .. Len(s) + 1
    BY <2>1, PairFits
  <2>. QED
    BY <1>1, <2>1, <2>2
<1>3. ASSUME NEW i \in D, NEW f \in [D -> Val] PROVE Singles(s, token, i, f) \in Val
  <2>1. CASE i > Len(s)
    BY <1>1, <2>1 DEF Singles
  <2>2. CASE ~(i > Len(s))
    <3>1. i \in Val /\ f[i + 1] \in Val /\ (HasAt(s, i, <<token, token>>) => f[i + 2] \in Val)
      BY <1>2, <2>2
    <3>. HIDE DEF D, Val
    <3>. QED
      BY <2>2, <3>1, Zenon DEF Singles
  <2>. QED
    BY <2>1, <2>2
<1>4. ASSUME NEW i \in D, NEW f \in [D -> Val], NEW g \in [D -> Val],
             \A j \in D : j > i => f[j] = g[j]
      PROVE  Singles(s, token, i, f) = Singles(s, token, i, g)
  <2>1. CASE i > Len(s)
    BY <2>1 DEF Singles
  <2>2. CASE ~(i > Len(s))
    <3>1. f[i + 1] = g[i + 1] /\ (HasAt(s, i, <<token, token>>) => f[i + 2] = g[i + 2])
      BY <1>2, <1>4, <2>2
    <3>. HIDE DEF D, Val
    <3>. QED
      BY <2>2, <3>1, Zenon DEF Singles
  <2>. QED
    BY <2>1, <2>2
<1>5. LooksAhead(top, Val, Step)
  <2>1. Step \in [D -> [[D -> Val] -> Val]]
    <3>. HIDE DEF D, Val
    <3>. QED
      BY <1>3
  <2>2. ASSUME NEW i \in D, NEW f \in [D -> Val], NEW g \in [D -> Val],
               \A j \in D : j > i => f[j] = g[j]
        PROVE  Step[i][f] = Step[i][g]
    <3>1. Singles(s, token, i, f) = Singles(s, token, i, g)
      BY <1>4, <2>2
    <3>. HIDE DEF D, Val
    <3>. QED
      BY <3>1
  <2>. HIDE DEF Val, Step, top
  <2>. QED
    BY <1>1, <2>1, <2>2 DEF LooksAhead
<1>6. PICK f \in [D -> Val] : \A i \in D : f[i] = Step[i][f]
  <2>. HIDE DEF Val, Step, top
  <2>. QED
    BY <1>5, LookingAhead
<1>7. Def(f)
  <2>1. \A i \in D : f[i] = Singles(s, token, i, f)
    <3>. HIDE DEF D, Val
    <3>. QED
      BY <1>6
  <2>. HIDE DEF D, Val
  <2>. QED
    BY <1>6, <2>1
<1>8. Def(v)
  <2>. HIDE DEF Def
  <2>. QED
    BY <1>7
<1>9. FirstSingle(s, token) = v[1]
  BY DEF FirstSingle, Singles
<1>. HIDE DEF v
<1>10. \A i \in D : v[i] = Singles(s, token, i, v)
  <2>. HIDE DEF D
  <2>. QED
    BY <1>8
<1>11. v \in [D -> Val]
  <2>. DEFINE m == [i \in D |-> top - i]
              S == {i \in D : v[i] \in Val}
  <2>1. m \in [D -> Nat] /\ \A i, j \in D : m[j] < m[i] <=> j > i
    BY <1>1
  <2>2. ASSUME NEW i \in D, \A j \in D : m[j] < m[i] => j \in S PROVE i \in S
    <3>1. \A j \in D : j > i => v[j] \in Val
      BY <2>1, <2>2
    <3>2. v[i] = Singles(s, token, i, v)
      BY <1>10
    <3>3. CASE i > Len(s)
      BY <1>1, <3>2, <3>3 DEF Singles
    <3>4. CASE ~(i > Len(s))
      <4>1. i \in Val /\ v[i + 1] \in Val /\ (HasAt(s, i, <<token, token>>) => v[i + 2] \in Val)
        BY <1>2, <3>1, <3>4
      <4>2. v[i] \in Val
        <5>. HIDE DEF D, Val
        <5>. QED
          BY <3>2, <3>4, <4>1, Zenon DEF Singles
      <4>. QED
        BY <4>2
    <3>. QED
      BY <3>3, <3>4
  <2>3. D \subseteq S
    <3>. HIDE DEF D, S, m
    <3>. QED
      BY <2>1, <2>2, MeasureInduction
  <2>4. v = [i \in D |-> v[i]]
    <3>. HIDE DEF D
    <3>. QED
      BY <1>8
  <2>. HIDE DEF D, Val
  <2>. QED
    BY <2>3, <2>4
<1>. QED
  BY <1>9, <1>10, <1>11 DEF SinglesScan

\* Three tokens in a row.
LEMMA HasThreeAt ==
  ASSUME NEW T, NEW s \in Seq(T), NEW i \in 1 .. Len(s), NEW t, NEW u, NEW w
  PROVE  HasAt(s, i, <<t, u, w>>)
         <=> i + 2 <= Len(s) /\ s[i] = t /\ s[i + 1] = u /\ s[i + 2] = w
<1>1. Len(<<t, u, w>>) = 3 /\ i + 3 - 1 = i + 2 /\ Len(s) \in Nat
  OBVIOUS
<1>. DEFINE q == SubSeq(s, i, i + 2)
<1>2. HasAt(s, i, <<t, u, w>>) <=> i + 2 <= Len(s) /\ q = <<t, u, w>>
  BY <1>1 DEF HasAt
<1>3. ASSUME i + 2 <= Len(s)
      PROVE  q \in Seq(T) /\ Len(q) = 3 /\ q[1] = s[i] /\ q[2] = s[i + 1] /\ q[3] = s[i + 2]
  BY <1>1, <1>3
<1>. HIDE DEF q
<1>4. ASSUME i + 2 <= Len(s)
      PROVE  q = <<t, u, w>> <=> q[1] = t /\ q[2] = u /\ q[3] = w
  BY <1>3, <1>4
<1>. QED
  BY <1>2, <1>3, <1>4

\* The turn of IsEscapedPath at position i.
Escaped(p, i, g) ==
  IF i > Len(p) THEN TRUE
  ELSE IF p[i] \in {Quest, Hash} THEN HasAt(p, i, <<p[i], p[i]>>) /\ g[i + 2]
  ELSE IF HasAt(p, i, <<Colon, Colon, Dash>>) THEN g[i + 3]
  ELSE ~HasAt(p, i, <<Colon, Dash>>) /\ g[i + 1]
EscapedScan(p, g) == \A i \in 1 .. Len(p) + 3 : g[i] = Escaped(p, i, g)

\* IsEscapedPath is a scan that looks only ahead.
LEMMA EscapedScans ==
  ASSUME NEW T, NEW p \in Seq(T)
  PROVE  \E g : EscapedScan(p, g) /\ (IsEscapedPath(p) <=> g[1])
<1>. DEFINE top == Len(p) + 3
            D == 1 .. top
            Val == BOOLEAN
            Step == [i \in D |-> [f \in [D -> Val] |-> Escaped(p, i, f)]]
            Def(f) == f = [i \in D |-> Escaped(p, i, f)]
            v == CHOOSE f : Def(f)
<1>1. Len(p) \in Nat /\ top \in Nat /\ Val # {}
  <2>1. Len(p) \in Nat /\ top \in Nat
    OBVIOUS
  <2>2. Val # {}
    BY Zenon
  <2>. QED
    BY <2>1, <2>2
<1>2. ASSUME NEW i \in D, ~(i > Len(p))
      PROVE  i + 1 \in D /\ i + 2 \in D /\ i + 3 \in D /\ i + 1 > i /\ i + 2 > i /\ i + 3 > i
  BY <1>1, <1>2
<1>3. ASSUME NEW i \in D, NEW f \in [D -> Val] PROVE Escaped(p, i, f) \in Val
  <2>1. CASE i > Len(p)
    BY <2>1 DEF Escaped
  <2>2. CASE ~(i > Len(p))
    <3>1. f[i + 1] \in Val /\ f[i + 3] \in Val
      BY <1>2, <2>2
    <3>. HIDE DEF D
    <3>. QED
      BY <2>2, <3>1, Zenon DEF Escaped
  <2>. QED
    BY <2>1, <2>2
<1>4. ASSUME NEW i \in D, NEW f \in [D -> Val], NEW g \in [D -> Val],
             \A j \in D : j > i => f[j] = g[j]
      PROVE  Escaped(p, i, f) = Escaped(p, i, g)
  <2>1. CASE i > Len(p)
    BY <2>1 DEF Escaped
  <2>2. CASE ~(i > Len(p))
    <3>1. f[i + 1] = g[i + 1] /\ f[i + 2] = g[i + 2] /\ f[i + 3] = g[i + 3]
      <4>. HIDE DEF D, Val
      <4>. QED
        BY <1>2, <1>4, <2>2
    <3>. HIDE DEF D, Val
    <3>. QED
      BY <2>2, <3>1, Zenon DEF Escaped
  <2>. QED
    BY <2>1, <2>2
<1>5. LooksAhead(top, Val, Step)
  <2>1. Step \in [D -> [[D -> Val] -> Val]]
    <3>. HIDE DEF D, Val
    <3>. QED
      BY <1>3
  <2>2. ASSUME NEW i \in D, NEW f \in [D -> Val], NEW g \in [D -> Val],
               \A j \in D : j > i => f[j] = g[j]
        PROVE  Step[i][f] = Step[i][g]
    <3>1. Escaped(p, i, f) = Escaped(p, i, g)
      BY <1>4, <2>2
    <3>. HIDE DEF D, Val
    <3>. QED
      BY <3>1
  <2>. HIDE DEF Val, Step, top
  <2>. QED
    BY <1>1, <2>1, <2>2 DEF LooksAhead
<1>6. PICK f \in [D -> Val] : \A i \in D : f[i] = Step[i][f]
  <2>. HIDE DEF Val, Step, top
  <2>. QED
    BY <1>5, LookingAhead
<1>7. Def(f)
  <2>1. \A i \in D : f[i] = Escaped(p, i, f)
    <3>. HIDE DEF D, Val
    <3>. QED
      BY <1>6
  <2>. HIDE DEF D, Val
  <2>. QED
    BY <1>6, <2>1
<1>8. Def(v)
  <2>. HIDE DEF Def
  <2>. QED
    BY <1>7
<1>9. IsEscapedPath(p) = v[1]
  BY Zenon DEF IsEscapedPath, Escaped, Quest, Hash, Colon, Dash
<1>. HIDE DEF v
<1>10. \A i \in D : v[i] = Escaped(p, i, v)
  <2>. HIDE DEF D
  <2>. QED
    BY <1>8
<1>11. EscapedScan(p, v)
  BY <1>10 DEF EscapedScan
<1>. QED
  BY <1>9, <1>11, Zenon

\* What a scan that finds all of a path escaped has read from position i on:
\* where it goes on, and what is there.
LEMMA EscapedTurn ==
  ASSUME NEW T, NEW p \in Seq(T), NEW g, EscapedScan(p, g), NEW i \in 1 .. Len(p), g[i]
  PROVE  \/ /\ p[i] \in {Quest, Hash} /\ i + 1 <= Len(p) /\ p[i + 1] = p[i] /\ g[i + 2]
         \/ /\ i + 2 <= Len(p) /\ p[i] = Colon /\ p[i + 1] = Colon /\ p[i + 2] = Dash /\ g[i + 3]
         \/ /\ p[i] \notin {Quest, Hash} /\ ~(i + 1 <= Len(p) /\ p[i] = Colon /\ p[i + 1] = Dash)
            /\ g[i + 1]
<1>1. i \in 1 .. Len(p) + 3 /\ ~(i > Len(p))
  OBVIOUS
<1>2. Escaped(p, i, g)
  BY <1>1, Zenon DEF EscapedScan
<1>3. IF p[i] \in {Quest, Hash} THEN HasAt(p, i, <<p[i], p[i]>>) /\ g[i + 2]
      ELSE IF HasAt(p, i, <<Colon, Colon, Dash>>) THEN g[i + 3]
      ELSE ~HasAt(p, i, <<Colon, Dash>>) /\ g[i + 1]
  BY <1>1, <1>2, Zenon DEF Escaped
<1>4. HasAt(p, i, <<p[i], p[i]>>) <=> i + 1 <= Len(p) /\ p[i] = p[i] /\ p[i + 1] = p[i]
  BY HasTwoAt
<1>5. HasAt(p, i, <<Colon, Dash>>) <=> i + 1 <= Len(p) /\ p[i] = Colon /\ p[i + 1] = Dash
  BY HasTwoAt
<1>6. HasAt(p, i, <<Colon, Colon, Dash>>)
      <=> i + 2 <= Len(p) /\ p[i] = Colon /\ p[i + 1] = Colon /\ p[i + 2] = Dash
  BY HasThreeAt
<1>. QED
  BY <1>3, <1>4, <1>5, <1>6, Zenon

\* What FirstSingle makes of a position.
LEMMA SinglesTurn ==
  ASSUME NEW T, NEW s \in Seq(T), NEW token, NEW f, SinglesScan(s, token, f),
         NEW i \in 1 .. Len(s)
  PROVE  /\ s[i] # token => f[i] = f[i + 1]
         /\ s[i] = token /\ i + 1 <= Len(s) /\ s[i + 1] = token => f[i] = f[i + 2]
         /\ s[i] = token /\ ~(i + 1 <= Len(s) /\ s[i + 1] = token) => f[i] = i
<1>1. i \in 1 .. Len(s) + 1 /\ ~(i > Len(s))
  OBVIOUS
<1>2. f[i] = Singles(s, token, i, f)
  BY <1>1, Zenon DEF SinglesScan
<1>3. f[i] = IF HasAt(s, i, <<token, token>>) THEN f[i + 2]
             ELSE IF s[i] = token THEN i ELSE f[i + 1]
  BY <1>1, <1>2, Zenon DEF Singles
<1>4. HasAt(s, i, <<token, token>>) <=> i + 1 <= Len(s) /\ s[i] = token /\ s[i + 1] = token
  BY HasTwoAt
<1>. QED
  BY <1>3, <1>4, Zenon

\* p is what s begins with.
Begins(p, s) == Len(p) <= Len(s) /\ \A j \in 1 .. Len(p) : s[j] = p[j]

\* No separator stands alone in an escaped path: the scan steps over all of it.
LEMMA EscapedSkips ==
  ASSUME NEW T, NEW s \in Seq(T), NEW p \in Seq(T), Begins(p, s), IsEscapedPath(p),
         NEW token \in {Quest, Hash}, NEW f, SinglesScan(s, token, f)
  PROVE  f[1] = f[Len(p) + 1]
<1>. DEFINE a == Len(p)
            D == 1 .. a + 1
            m == [i \in D |-> a + 1 - i]
<1>1. PICK g : EscapedScan(p, g) /\ (IsEscapedPath(p) <=> g[1])
  BY EscapedScans
<1>. DEFINE S == {i \in D : g[i] => f[i] = f[a + 1]}
<1>2. a \in Nat /\ Len(s) \in Nat /\ a <= Len(s) /\ \A j \in 1 .. a : s[j] = p[j]
  BY DEF Begins
<1>3. m \in [D -> Nat] /\ \A i, j \in D : m[j] < m[i] <=> j > i
  BY <1>2
<1>4. ASSUME NEW i \in D, \A j \in D : m[j] < m[i] => j \in S PROVE i \in S
  <2>1. \A j \in D : j > i /\ g[j] => f[j] = f[a + 1]
    BY <1>3, <1>4
  <2>2. CASE i = a + 1
    BY <2>2
  <2>3. CASE i # a + 1 /\ g[i]
    <3>1. i \in 1 .. Len(p) /\ i \in 1 .. Len(s) /\ s[i] = p[i]
      BY <1>2, <2>3
    <3>2. \A j \in 1 .. a : s[j] # token => f[j] = f[j + 1]
      <4>. SUFFICES ASSUME NEW j \in 1 .. a, s[j] # token PROVE f[j] = f[j + 1]
        OBVIOUS
      <4>1. j \in 1 .. Len(s)
        BY <1>2
      <4>. QED
        BY <4>1, SinglesTurn
    <3>3. CASE p[i] \in {Quest, Hash} /\ i + 1 <= Len(p) /\ p[i + 1] = p[i] /\ g[i + 2]
      <4>1. i + 1 \in 1 .. a /\ i + 1 <= Len(s) /\ s[i + 1] = p[i] /\ i + 2 \in D /\ i + 2 > i
            /\ i + 1 + 1 = i + 2
        BY <1>2, <3>1, <3>3
      <4>2. f[i] = f[i + 2]
        <5>1. CASE p[i] = token
          BY <3>1, <4>1, <5>1, SinglesTurn
        <5>2. CASE p[i] # token
          <6>1. f[i] = f[i + 1]
            BY <3>1, <3>2, <5>2
          <6>2. f[i + 1] = f[i + 2]
            BY <3>2, <4>1, <5>2
          <6>. QED
            BY <6>1, <6>2
        <5>. QED
          BY <5>1, <5>2
      <4>3. f[i + 2] = f[a + 1]
        BY <2>1, <3>3, <4>1
      <4>. QED
        BY <4>2, <4>3
    <3>4. CASE i + 2 <= Len(p) /\ p[i] = Colon /\ p[i + 1] = Colon /\ p[i + 2] = Dash /\ g[i + 3]
      <4>1. i + 1 \in 1 .. a /\ i + 2 \in 1 .. a /\ i + 3 \in D /\ i + 3 > i
            /\ i + 1 + 1 = i + 2 /\ i + 2 + 1 = i + 3
        BY <1>2, <3>1, <3>4
      <4>2. Colon # token /\ Dash # token
        BY ReadMarks
      <4>3. f[i] = f[i + 1] /\ f[i + 1] = f[i + 2] /\ f[i + 2] = f[i + 3]
        BY <1>2, <3>1, <3>2, <3>4, <4>1, <4>2
      <4>4. f[i + 3] = f[a + 1]
        BY <2>1, <3>4, <4>1
      <4>. QED
        BY <4>3, <4>4
    <3>5. CASE p[i] \notin {Quest, Hash} /\ g[i + 1]
      <4>1. i + 1 \in D /\ i + 1 > i
        BY <1>2, <3>1
      <4>2. f[i] = f[i + 1]
        BY <3>1, <3>2, <3>5
      <4>3. f[i + 1] = f[a + 1]
        BY <2>1, <3>5, <4>1
      <4>. QED
        BY <4>2, <4>3
    <3>. QED
      BY <1>1, <2>3, <3>1, <3>3, <3>4, <3>5, EscapedTurn
  <2>. QED
    BY <2>2, <2>3
<1>5. D \subseteq S
  <2>. HIDE DEF D, S, m
  <2>. QED
    BY <1>3, <1>4, MeasureInduction
<1>6. 1 \in D
  BY <1>2
<1>. QED
  BY <1>1, <1>5, <1>6

\* A :- that no : precedes, at position j.
IsColonDash(s, j) ==
  j + 1 <= Len(s) /\ s[j] = Colon /\ s[j + 1] = Dash /\ (j > 1 => s[j - 1] # Colon)

\* What IsDefaultAt asks of the tokens around a place.
LEMMA DefaultForm ==
  ASSUME NEW T, NEW s \in Seq(T), NEW j \in 1 .. Len(s)
  PROVE  IsDefaultAt(s, j) <=> IsColonDash(s, j)
<1>1. HasAt(s, j, <<Colon, Dash>>) <=> j + 1 <= Len(s) /\ s[j] = Colon /\ s[j + 1] = Dash
  BY HasTwoAt
<1>2. IsDefaultAt(s, j) <=> HasAt(s, j, <<Colon, Dash>>) /\ (j > 1 => s[j - 1] # Colon)
  BY Zenon DEF IsDefaultAt, Colon, Dash
<1>. QED
  BY <1>1, <1>2, Zenon DEF IsColonDash

\* An escaped path holds no default.
LEMMA EscapedHasNoDefault ==
  ASSUME NEW T, NEW p \in Seq(T), IsEscapedPath(p), NEW j \in 1 .. Len(p)
  PROVE  ~IsColonDash(p, j)
<1>. DEFINE a == Len(p)
            D == 1 .. a + 3
            m == [i \in D |-> a + 3 - i]
            Free(i) == \A k \in i .. a : ~IsColonDash(p, k)
<1>1. PICK g : EscapedScan(p, g) /\ (IsEscapedPath(p) <=> g[1])
  BY EscapedScans
<1>. DEFINE S == {i \in D : g[i] => Free(i)}
<1>2. a \in Nat
  OBVIOUS
<1>3. m \in [D -> Nat] /\ \A i, k \in D : m[k] < m[i] <=> k > i
  BY <1>2
<1>4. ASSUME NEW i \in D, \A k \in D : m[k] < m[i] => k \in S PROVE i \in S
  <2>1. \A k \in D : k > i /\ g[k] => Free(k)
    BY <1>3, <1>4
  <2>2. CASE i > a
    BY <1>2, <2>2
  <2>3. CASE ~(i > a) /\ g[i]
    <3>1. i \in 1 .. Len(p) /\ i + 1 \in D /\ i + 2 \in D /\ i + 3 \in D
      BY <1>2, <2>3
    <3>2. CASE p[i] \in {Quest, Hash} /\ i + 1 <= Len(p) /\ p[i + 1] = p[i] /\ g[i + 2]
      <4>1. ~IsColonDash(p, i) /\ ~IsColonDash(p, i + 1)
        BY <3>2, ReadMarks DEF IsColonDash
      <4>2. Free(i + 2)
        BY <2>1, <3>1, <3>2
      <4>3. \A k \in i .. a : k = i \/ k = i + 1 \/ k \in i + 2 .. a
        BY <1>2, <3>1
      <4>. QED
        BY <4>1, <4>2, <4>3
    <3>3. CASE i + 2 <= Len(p) /\ p[i] = Colon /\ p[i + 1] = Colon /\ p[i + 2] = Dash /\ g[i + 3]
      <4>1. ~IsColonDash(p, i) /\ ~IsColonDash(p, i + 1) /\ ~IsColonDash(p, i + 2)
        <5>1. i + 1 > 1 /\ i + 1 - 1 = i
          BY <3>1
        <5>. QED
          BY <3>3, <5>1, ReadMarks DEF IsColonDash
      <4>2. Free(i + 3)
        BY <2>1, <3>1, <3>3
      <4>3. \A k \in i .. a : k = i \/ k = i + 1 \/ k = i + 2 \/ k \in i + 3 .. a
        BY <1>2, <3>1
      <4>. QED
        BY <4>1, <4>2, <4>3
    <3>4. CASE ~(i + 1 <= Len(p) /\ p[i] = Colon /\ p[i + 1] = Dash) /\ g[i + 1]
      <4>1. ~IsColonDash(p, i)
        BY <3>4 DEF IsColonDash
      <4>2. Free(i + 1)
        BY <2>1, <3>1, <3>4
      <4>3. \A k \in i .. a : k = i \/ k \in i + 1 .. a
        BY <1>2, <3>1
      <4>. QED
        BY <4>1, <4>2, <4>3
    <3>. QED
      BY <1>1, <2>3, <3>1, <3>2, <3>3, <3>4, EscapedTurn
  <2>. QED
    BY <2>2, <2>3
<1>5. D \subseteq S
  <2>. HIDE DEF D, S, m
  <2>. QED
    BY <1>3, <1>4, MeasureInduction
<1>6. 1 \in D
  BY <1>2
<1>. QED
  BY <1>1, <1>5, <1>6

-----------------------------------------------------------------------------
(* Slices of a text, between two places.                                   *)

Slice(s, i, j) == SubSeq(s, i + 1, j)

IsHead(T, u, s, e) ==
  u \in Seq(T) /\ Len(u) = e /\ \A k \in 1 .. e : u[k] = s[k]

IsSlice(T, u, s, i, j) ==
  u \in Seq(T) /\ Len(u) = j - i /\ \A k \in 1 .. j - i : u[k] = s[i + k]

\* The length and the tokens of a slice.
LEMMA SliceFacts ==
  ASSUME NEW T, NEW s \in Seq(T), NEW i \in Nat, NEW j \in Nat, i <= j, j <= Len(s)
  PROVE  IsSlice(T, Slice(s, i, j), s, i, j)
<1>. DEFINE h == i + 1
<1>1. h \in Int /\ j \in Int /\ Len(s) \in Nat /\ \A x \in h .. j : s[x] \in T
  OBVIOUS
<1>2. \A k \in 1 .. j - i : h + k - 1 = i + k
  OBVIOUS
<1>3. j - h + 1 = j - i /\ (h <= j <=> i < j) /\ (~(i < j) => j - i = 0)
  OBVIOUS
<1>4. Slice(s, i, j) = SubSeq(s, h, j)
  BY DEF Slice
<1>. HIDE DEF h
<1>5. /\ SubSeq(s, h, j) \in Seq(T)
      /\ Len(SubSeq(s, h, j)) = IF h <= j THEN j - h + 1 ELSE 0
      /\ \A k \in 1 .. j - h + 1 : SubSeq(s, h, j)[k] = s[h + k - 1]
  BY <1>1, SubSeqProperties
<1>. QED
  BY <1>2, <1>3, <1>4, <1>5 DEF IsSlice

\* A slice from the first token.
LEMMA HeadSlice ==
  ASSUME NEW T, NEW s \in Seq(T), NEW e \in Nat, e <= Len(s)
  PROVE  IsHead(T, Slice(s, 0, e), s, e)
<1>. DEFINE u == Slice(s, 0, e)
<1>1. IsSlice(T, u, s, 0, e)
  BY SliceFacts
<1>. HIDE DEF u
<1>2. e - 0 = e /\ \A k \in 1 .. e : 0 + k = k
  OBVIOUS
<1>3. IsHead(T, u, s, e)
  BY <1>1, <1>2 DEF IsSlice, IsHead
<1>. QED
  BY <1>3 DEF u

\* A slice of a slice is a slice.
LEMMA SliceOfSlice ==
  ASSUME NEW T, NEW s \in Seq(T), NEW i \in Nat, NEW j \in Nat, i <= j, j <= Len(s),
         NEW k \in Nat, NEW l \in Nat, k <= l, l <= j - i
  PROVE  Slice(Slice(s, i, j), k, l) = Slice(s, i + k, i + l)
<1>. DEFINE u == Slice(s, i, j)
            v == Slice(u, k, l)
            w == Slice(s, i + k, i + l)
<1>1. u \in Seq(T) /\ Len(u) = j - i /\ \A x \in 1 .. j - i : u[x] = s[i + x]
  <2>1. IsSlice(T, u, s, i, j)
    BY SliceFacts
  <2>. QED
    BY <2>1 DEF IsSlice
<1>2. Len(s) \in Nat /\ i + k \in Nat /\ i + l \in Nat /\ i + k <= i + l /\ i + l <= Len(s)
      /\ l <= Len(u) /\ (i + l) - (i + k) = l - k
  BY <1>1
<1>. HIDE DEF u
<1>3. v \in Seq(T) /\ Len(v) = l - k /\ \A x \in 1 .. l - k : v[x] = u[k + x]
  <2>1. IsSlice(T, v, u, k, l)
    BY <1>1, <1>2, SliceFacts
  <2>. QED
    BY <2>1 DEF IsSlice
<1>4. w \in Seq(T) /\ Len(w) = l - k /\ \A x \in 1 .. l - k : w[x] = s[i + k + x]
  <2>1. IsSlice(T, w, s, i + k, i + l)
    BY <1>2, SliceFacts
  <2>. HIDE DEF w
  <2>. QED
    BY <1>2, <2>1 DEF IsSlice
<1>5. ASSUME NEW x \in 1 .. l - k PROVE v[x] = w[x]
  <2>1. k + x \in 1 .. j - i /\ i + (k + x) = i + k + x
    OBVIOUS
  <2>2. v[x] = u[k + x] /\ u[k + x] = s[i + (k + x)] /\ w[x] = s[i + k + x]
    BY <1>1, <1>3, <1>4, <2>1
  <2>. QED
    BY <2>1, <2>2
<1>. HIDE DEF v, w
<1>6. v = w
  BY <1>3, <1>4, <1>5, SeqEqual
<1>. QED
  BY <1>6 DEF u, v, w

-----------------------------------------------------------------------------
(* Where the separators of a body are: the path ends at a, the query at b, *)
(* the field at e.                                                         *)

Shape(s, a, b, e) ==
  /\ a <= b /\ b <= e /\ e <= Len(s)
  /\ IsEscapedPath(Slice(s, 0, a))
  /\ a < b => /\ s[a + 1] = Quest /\ a + 2 <= b /\ s[a + 2] # Quest
              /\ \A j \in a + 2 .. b : s[j] # Hash
  /\ b < e => s[b + 1] = Hash /\ ~(b + 2 <= e /\ s[b + 2] = Hash)

\* Where the token is not, the scan goes on.
LEMMA SinglesPass ==
  ASSUME NEW T, NEW s \in Seq(T), NEW token, NEW f, SinglesScan(s, token, f),
         NEW i \in Nat \ {0}, NEW k \in Nat, i <= k + 1, k <= Len(s),
         \A j \in i .. k : s[j] # token
  PROVE  f[i] = f[k + 1]
<1>. DEFINE S == {n \in Nat : i + n <= k + 1 => f[i] = f[i + n]}
<1>1. 0 \in S
  OBVIOUS
<1>2. ASSUME NEW n \in Nat, n \in S PROVE n + 1 \in S
  <2>. SUFFICES ASSUME i + (n + 1) <= k + 1 PROVE f[i] = f[i + (n + 1)]
    OBVIOUS
  <2>1. i + n \in i .. k /\ i + n \in 1 .. Len(s) /\ i + n <= k + 1 /\ i + n + 1 = i + (n + 1)
    OBVIOUS
  <2>2. f[i] = f[i + n]
    BY <1>2, <2>1
  <2>3. f[i + n] = f[i + n + 1]
    BY <2>1, SinglesTurn
  <2>. QED
    BY <2>1, <2>2, <2>3
<1>3. Nat \subseteq S
  <2>. HIDE DEF S
  <2>. QED
    BY <1>1, <1>2, NatSetInduction
<1>4. k + 1 - i \in Nat /\ i + (k + 1 - i) = k + 1
  OBVIOUS
<1>5. k + 1 - i \in S
  BY <1>3, <1>4
<1>. QED
  BY <1>4, <1>5

\* Where the first # of a body stands.
LEMMA FieldFound ==
  ASSUME NEW T, NEW s \in Seq(T), NEW a \in Nat, NEW b \in Nat, NEW e \in Nat, Shape(s, a, b, e)
  PROVE  FirstSingle(Slice(s, 0, e), Hash) = IF b < e THEN b + 1 ELSE 0
<1>. DEFINE h == Slice(s, 0, e)
            p == Slice(s, 0, a)
<1>0. a <= b /\ b <= e /\ e <= Len(s) /\ Len(s) \in Nat /\ 0 <= e /\ 0 <= a /\ a <= Len(s)
  BY DEF Shape
<1>1. h \in Seq(T) /\ Len(h) = e /\ \A j \in 1 .. e : h[j] = s[j]
  <2>1. IsHead(T, h, s, e)
    BY <1>0, HeadSlice
  <2>. QED
    BY <2>1 DEF IsHead
<1>2. p \in Seq(T) /\ Len(p) = a /\ \A j \in 1 .. a : p[j] = s[j]
  <2>1. IsHead(T, p, s, a)
    BY <1>0, HeadSlice
  <2>. QED
    BY <2>1 DEF IsHead
<1>3. IsEscapedPath(p)
  BY DEF Shape
<1>. HIDE DEF h, p
<1>4. Begins(p, h)
  BY <1>0, <1>1, <1>2 DEF Begins
<1>5. PICK f : SinglesScan(h, Hash, f) /\ FirstSingle(h, Hash) = f[1]
  BY <1>1, FirstSingleScans
<1>6. f[1] = f[a + 1]
  <2>1. h \in Seq(T) /\ p \in Seq(T) /\ Hash \in {Quest, Hash}
    BY <1>1, <1>2
  <2>2. SinglesScan(h, Hash, f)
    BY <1>5
  <2>3. f[1] = f[Len(p) + 1]
    BY <1>3, <1>4, <2>1, <2>2, EscapedSkips
  <2>. QED
    BY <1>2, <2>3
<1>7. f[a + 1] = f[b + 1]
  <2>1. ASSUME NEW j \in a + 1 .. b PROVE h[j] # Hash
    <3>1. j \in 1 .. e /\ a < b /\ (j = a + 1 \/ j \in a + 2 .. b)
      BY <1>0
    <3>2. s[a + 1] # Hash /\ \A x \in a + 2 .. b : s[x] # Hash
      BY <3>1, ReadMarks DEF Shape
    <3>. QED
      BY <1>1, <3>1, <3>2
  <2>2. a + 1 \in Nat \ {0} /\ a + 1 <= b + 1 /\ b <= Len(h)
    BY <1>0, <1>1
  <2>. QED
    BY <1>1, <1>5, <2>1, <2>2, SinglesPass
<1>8. CASE b < e
  <2>1. b + 1 \in 1 .. Len(h) /\ h[b + 1] = Hash
    BY <1>0, <1>1, <1>8 DEF Shape
  <2>2. ~(b + 1 + 1 <= Len(h) /\ h[b + 1 + 1] = Hash)
    <3>1. b + 1 + 1 = b + 2 /\ (b + 2 <= e => b + 2 \in 1 .. e)
      BY <1>0
    <3>. QED
      BY <1>1, <1>8, <3>1 DEF Shape
  <2>3. f[b + 1] = b + 1
    BY <1>1, <1>5, <2>1, <2>2, SinglesTurn
  <2>. QED
    BY <1>5, <1>6, <1>7, <1>8, <2>3 DEF h
<1>9. CASE ~(b < e)
  <2>1. b + 1 = Len(h) + 1 /\ b + 1 \in 1 .. Len(h) + 1 /\ b + 1 > Len(h)
    BY <1>0, <1>1, <1>9
  <2>2. f[b + 1] = 0
    BY <1>5, <2>1, Zenon DEF SinglesScan, Singles
  <2>. QED
    BY <1>5, <1>6, <1>7, <1>9, <2>2 DEF h
<1>. QED
  BY <1>8, <1>9

\* Where the first ? of a body stands.
LEMMA QueryFound ==
  ASSUME NEW T, NEW s \in Seq(T), NEW a \in Nat, NEW b \in Nat, NEW e \in Nat, Shape(s, a, b, e)
  PROVE  FirstSingle(Slice(s, 0, b), Quest) = IF a < b THEN a + 1 ELSE 0
<1>. DEFINE h == Slice(s, 0, b)
            p == Slice(s, 0, a)
<1>0. a <= b /\ b <= Len(s) /\ Len(s) \in Nat /\ 0 <= b /\ 0 <= a /\ a <= Len(s)
  BY DEF Shape
<1>1. h \in Seq(T) /\ Len(h) = b /\ \A j \in 1 .. b : h[j] = s[j]
  <2>1. IsHead(T, h, s, b)
    BY <1>0, HeadSlice
  <2>. QED
    BY <2>1 DEF IsHead
<1>2. p \in Seq(T) /\ Len(p) = a /\ \A j \in 1 .. a : p[j] = s[j]
  <2>1. IsHead(T, p, s, a)
    BY <1>0, HeadSlice
  <2>. QED
    BY <2>1 DEF IsHead
<1>3. IsEscapedPath(p)
  BY DEF Shape
<1>. HIDE DEF h, p
<1>4. Begins(p, h)
  BY <1>0, <1>1, <1>2 DEF Begins
<1>5. PICK f : SinglesScan(h, Quest, f) /\ FirstSingle(h, Quest) = f[1]
  BY <1>1, FirstSingleScans
<1>6. f[1] = f[a + 1]
  BY <1>1, <1>2, <1>3, <1>4, <1>5, EscapedSkips
<1>7. CASE a < b
  <2>1. a + 1 \in 1 .. Len(h) /\ h[a + 1] = Quest
    BY <1>0, <1>1, <1>7 DEF Shape
  <2>2. ~(a + 1 + 1 <= Len(h) /\ h[a + 1 + 1] = Quest)
    <3>1. a + 1 + 1 = a + 2 /\ (a + 2 <= b => a + 2 \in 1 .. b)
      BY <1>0
    <3>. QED
      BY <1>1, <1>7, <3>1 DEF Shape
  <2>3. f[a + 1] = a + 1
    BY <1>1, <1>5, <2>1, <2>2, SinglesTurn
  <2>. QED
    BY <1>5, <1>6, <1>7, <2>3 DEF h
<1>8. CASE ~(a < b)
  <2>1. a + 1 = Len(h) + 1 /\ a + 1 \in 1 .. Len(h) + 1 /\ a + 1 > Len(h)
    BY <1>0, <1>1, <1>8
  <2>2. f[a + 1] = 0
    BY <1>5, <2>1, Zenon DEF SinglesScan, Singles
  <2>. QED
    BY <1>5, <1>6, <1>8, <2>2 DEF h
<1>. QED
  BY <1>7, <1>8

\* The separators are in one place only.
LEMMA ShapeUnique ==
  ASSUME NEW T, NEW s \in Seq(T), NEW e \in Nat,
         NEW a \in Nat, NEW b \in Nat, Shape(s, a, b, e),
         NEW a2 \in Nat, NEW b2 \in Nat, Shape(s, a2, b2, e)
  PROVE  a2 = a /\ b2 = b
<1>1. a <= b /\ b <= e /\ a2 <= b2 /\ b2 <= e
  BY DEF Shape
<1>2. (IF b < e THEN b + 1 ELSE 0) = IF b2 < e THEN b2 + 1 ELSE 0
  BY FieldFound
<1>3. b2 = b
  BY <1>1, <1>2
<1>4. (IF a < b THEN a + 1 ELSE 0) = IF a2 < b THEN a2 + 1 ELSE 0
  BY <1>3, QueryFound
<1>. QED
  BY <1>1, <1>3, <1>4

-----------------------------------------------------------------------------
(* The pairs of a query, and what the grammar allows in one.               *)

\* From a to b stands one pair of the query.
IsPart(q, i, l) ==
  /\ i <= l /\ l <= Len(q)
  /\ i > 0 => q[i] = Amp
  /\ l < Len(q) => q[l + 1] = Amp
  /\ \A m \in i + 1 .. l : q[m] # Amp

\* The pair that begins at i + 1 ends somewhere.
LEMMA PartEnds ==
  ASSUME NEW T, NEW q \in Seq(T), NEW i \in 0 .. Len(q), i > 0 => q[i] = Amp
  PROVE  LET k == IndexFrom(q, i + 1, Amp)
             l == IF k = 0 THEN Len(q) ELSE k - 1
         IN l \in 0 .. Len(q) /\ IsPart(q, i, l)
<1>. DEFINE k == IndexFrom(q, i + 1, Amp)
            l == IF k = 0 THEN Len(q) ELSE k - 1
<1>1. i + 1 \in Nat \ {0} /\ i \in Nat /\ Len(q) \in Nat /\ i <= Len(q)
  OBVIOUS
<1>2. \/ k = 0 /\ \A j \in i + 1 .. Len(q) : q[j] # Amp
      \/ k \in i + 1 .. Len(q) /\ q[k] = Amp /\ \A j \in i + 1 .. k - 1 : q[j] # Amp
  BY <1>1, FirstOccurrence
<1>. HIDE DEF k
<1>3. CASE k = 0
  <2>1. l = Len(q) /\ \A j \in i + 1 .. Len(q) : q[j] # Amp
    BY <1>1, <1>2, <1>3
  <2>. HIDE DEF l
  <2>2. l \in 0 .. Len(q) /\ IsPart(q, i, l)
    BY <1>1, <2>1 DEF IsPart
  <2>. QED
    BY <2>2 DEF k, l
<1>4. CASE k # 0
  <2>1. k \in i + 1 .. Len(q) /\ q[k] = Amp /\ \A j \in i + 1 .. k - 1 : q[j] # Amp
    BY <1>1, <1>2, <1>4
  <2>2. l = k - 1
    BY <1>4
  <2>. HIDE DEF l
  <2>3. l + 1 = k /\ i <= l /\ l <= Len(q) /\ l \in 0 .. Len(q)
    BY <1>1, <2>1, <2>2
  <2>4. IsPart(q, i, l)
    BY <2>1, <2>2, <2>3 DEF IsPart
  <2>. QED
    BY <2>3, <2>4 DEF k, l
<1>. QED
  BY <1>3, <1>4

\* What strings.Split returns.
LEMMA PartsForm ==
  ASSUME NEW T, NEW q \in Seq(T), NEW x
  PROVE  x \in Parts(q, Amp)
         <=> \E i, l \in 0 .. Len(q) : IsPart(q, i, l) /\ x = Slice(q, i, l)
<1>. DEFINE starts == {1} \cup {i + 1 : i \in {j \in DOMAIN q : q[j] = Amp}}
            End(i) == IF IndexFrom(q, i, Amp) = 0 THEN Len(q) ELSE IndexFrom(q, i, Amp) - 1
<1>1. Parts(q, Amp) = {SubSeq(q, i, End(i)) : i \in starts}
  BY Zenon DEF Parts
<1>2. \A i \in 0 .. Len(q) : (i > 0 => q[i] = Amp) => i + 1 \in starts
  <2>. SUFFICES ASSUME NEW i \in 0 .. Len(q), i > 0 => q[i] = Amp PROVE i + 1 \in starts
    OBVIOUS
  <2>1. CASE i = 0
    BY <2>1
  <2>2. CASE i # 0
    <3>1. i \in DOMAIN q /\ q[i] = Amp
      BY <2>2
    <3>. QED
      BY <3>1
  <2>. QED
    BY <2>1, <2>2
<1>3. \A h \in starts : \E i \in 0 .. Len(q) : h = i + 1 /\ (i > 0 => q[i] = Amp)
  <2>. SUFFICES ASSUME NEW h \in starts
                PROVE  \E i \in 0 .. Len(q) : h = i + 1 /\ (i > 0 => q[i] = Amp)
    OBVIOUS
  <2>1. CASE h = 1
    BY <2>1
  <2>2. CASE h # 1
    BY <2>2
  <2>. QED
    BY <2>1, <2>2
<1>. HIDE DEF starts
<1>4. ASSUME x \in Parts(q, Amp)
      PROVE  \E i, l \in 0 .. Len(q) : IsPart(q, i, l) /\ x = Slice(q, i, l)
  <2>1. PICK h \in starts : x = SubSeq(q, h, End(h))
    <3>. HIDE DEF End
    <3>. QED
      BY <1>1, <1>4
  <2>2. PICK i \in 0 .. Len(q) : h = i + 1 /\ (i > 0 => q[i] = Amp)
    BY <1>3
  <2>3. End(i + 1) \in 0 .. Len(q) /\ IsPart(q, i, End(i + 1))
    BY <2>2, PartEnds
  <2>. HIDE DEF End
  <2>. QED
    BY <2>1, <2>2, <2>3 DEF Slice
<1>5. ASSUME NEW i \in 0 .. Len(q), NEW l \in 0 .. Len(q), IsPart(q, i, l), x = Slice(q, i, l)
      PROVE  x \in Parts(q, Amp)
  <2>1. i > 0 => q[i] = Amp
    BY <1>5 DEF IsPart
  <2>2. End(i + 1) \in 0 .. Len(q) /\ IsPart(q, i, End(i + 1))
    BY <2>1, PartEnds
  <2>3. End(i + 1) = l
    <3>. DEFINE e == End(i + 1)
    <3>1. e \in 0 .. Len(q) /\ IsPart(q, i, e) /\ Len(q) \in Nat /\ l \in 0 .. Len(q)
      BY <2>2
    <3>. HIDE DEF e
    <3>2. ~(l < e)
      <4>. SUFFICES ASSUME l < e PROVE FALSE
        OBVIOUS
      <4>1. q[l + 1] = Amp
        BY <1>5, <3>1 DEF IsPart
      <4>2. l + 1 \in i + 1 .. e
        BY <1>5, <3>1 DEF IsPart
      <4>. QED
        BY <3>1, <4>1, <4>2 DEF IsPart
    <3>3. ~(e < l)
      <4>. SUFFICES ASSUME e < l PROVE FALSE
        OBVIOUS
      <4>1. q[e + 1] = Amp
        BY <1>5, <3>1 DEF IsPart
      <4>2. e + 1 \in i + 1 .. l
        BY <1>5, <3>1 DEF IsPart
      <4>. QED
        BY <1>5, <4>1, <4>2 DEF IsPart
    <3>4. e = l
      BY <3>1, <3>2, <3>3
    <3>. QED
      BY <3>4 DEF e
  <2>4. i + 1 \in starts
    BY <1>2, <2>1
  <2>. HIDE DEF End
  <2>. QED
    BY <1>1, <1>5, <2>3, <2>4 DEF Slice
<1>. QED
  BY <1>4, <1>5

\* A legal pair, place by place: a key of one token, "=", and a value.
LegalForm(p) ==
  /\ Len(p) >= 2 /\ p[1] \in Lower /\ p[1] # Equal /\ p[2] = Equal
  /\ \A j \in 3 .. Len(p) : p[j] \notin {Equal, Hash} \cup Malformed

\* What the grammar allows in a query.
LEMMA LegalMeans ==
  ASSUME NEW T, NEW p \in Seq(T)
  PROVE  IsLegalPair(p) <=> LegalForm(p)
<1>. DEFINE c == CutAtFirst(p, Equal)
            t == SubSeq(p, 3, Len(p))
<1>0. Len(p) \in Nat
  OBVIOUS
<1>1. IsLegalPair(p) <=> /\ Contains(p, Equal)
                         /\ Range(c.tail) \cap Malformed = {}
                         /\ \E key \in Lower : c.head = <<key>>
                         /\ Range(c.tail) \cap {Equal, Hash} = {}
  BY Zenon DEF IsLegalPair, IsPair, Equal, Hash
<1>2. CASE \A j \in 1 .. Len(p) : p[j] # Equal
  <2>1. ~Contains(p, Equal)
    BY <1>2 DEF Contains
  <2>2. ~LegalForm(p)
    BY <1>2 DEF LegalForm
  <2>. QED
    BY <1>1, <2>1, <2>2
<1>3. ASSUME NEW i \in 1 .. Len(p), p[i] = Equal, \A j \in 1 .. i - 1 : p[j] # Equal,
             IsCutAt(p, Equal, i)
      PROVE  IsLegalPair(p) <=> LegalForm(p)
  <2>1. Contains(p, Equal)
    BY <1>3 DEF Contains
  <2>2. c.head = SubSeq(p, 1, i - 1) /\ c.tail = SubSeq(p, i + 1, Len(p))
    BY <1>3 DEF IsCutAt
  <2>3. SubSeq(p, 1, i - 1) \in Seq(T) /\ Len(SubSeq(p, 1, i - 1)) = i - 1
        /\ \A j \in 1 .. i - 1 : SubSeq(p, 1, i - 1)[j] = p[j]
    BY <1>0
  <2>4. CASE i # 2
    <3>1. \A key : Len(<<key>>) = 1
      OBVIOUS
    <3>2. ~IsLegalPair(p)
      <4>1. Len(c.head) # 1
        BY <2>2, <2>3, <2>4
      <4>. HIDE DEF c
      <4>. QED
        BY <1>1, <3>1, <4>1
    <3>3. ~LegalForm(p)
      <4>1. i = 1 \/ 2 \in 1 .. i - 1
        BY <2>4
      <4>. QED
        BY <1>3, <4>1 DEF LegalForm
    <3>. QED
      BY <3>2, <3>3
  <2>5. CASE i = 2
    <3>1. c.tail = t
      BY <2>2, <2>5
    <3>2. t \in Seq(T) /\ Len(t) = Len(p) - 2 /\ \A j \in 1 .. Len(p) - 2 : t[j] = p[j + 2]
      <4>1. 2 <= Len(p) /\ 2 \in Nat /\ Len(p) \in Nat
        BY <2>5
      <4>2. IsSlice(T, Slice(p, 2, Len(p)), p, 2, Len(p))
        BY <4>1, SliceFacts
      <4>3. Slice(p, 2, Len(p)) = t
        BY DEF Slice
      <4>4. IsSlice(T, t, p, 2, Len(p))
        BY <4>2, <4>3
      <4>5. \A j \in 1 .. Len(p) - 2 : 2 + j = j + 2
        BY <4>1
      <4>. HIDE DEF t
      <4>. QED
        BY <4>4, <4>5 DEF IsSlice
    <3>3. Range(t) = {p[j] : j \in 3 .. Len(p)}
      <4>. HIDE DEF t
      <4>1. Range(t) = {t[j] : j \in 1 .. Len(p) - 2}
        BY <1>0, <2>5, <3>2 DEF Range
      <4>2. ASSUME NEW j \in 3 .. Len(p) PROVE p[j] \in Range(t)
        <5>1. j - 2 \in 1 .. Len(p) - 2 /\ j - 2 + 2 = j
          BY <1>0
        <5>. QED
          BY <3>2, <4>1, <5>1
      <4>3. ASSUME NEW j \in 1 .. Len(p) - 2 PROVE t[j] \in {p[k] : k \in 3 .. Len(p)}
        <5>1. j + 2 \in 3 .. Len(p) /\ t[j] = p[j + 2]
          BY <1>0, <3>2
        <5>. QED
          BY <5>1
      <4>. QED
        BY <4>1, <4>2, <4>3
    <3>4. (\E key \in Lower : c.head = <<key>>) <=> p[1] \in Lower
      <4>1. 1 \in 1 .. i - 1 /\ i - 1 = 1
        BY <2>5
      <4>. DEFINE d == c.head
      <4>2. d \in Seq(T) /\ Len(d) = 1 /\ d[1] = p[1]
        <5>. DEFINE u == SubSeq(p, 1, i - 1)
        <5>1. u \in Seq(T) /\ Len(u) = i - 1 /\ u[1] = p[1] /\ d = u
          BY <2>2, <2>3, <4>1
        <5>. HIDE DEF u, d
        <5>. QED
          BY <4>1, <5>1
      <4>. HIDE DEF d
      <4>3. d = <<p[1]>>
        BY <4>2
      <4>. QED
        BY <4>3 DEF d
    <3>5. p[1] # Equal /\ p[2] = Equal /\ Len(p) >= 2
      BY <1>3, <2>5
    <3>. HIDE DEF c, t
    <3>6. IsLegalPair(p) <=> p[1] \in Lower /\ Range(t) \cap ({Equal, Hash} \cup Malformed) = {}
      BY <1>1, <2>1, <3>1, <3>4
    <3>. QED
      BY <3>3, <3>5, <3>6 DEF LegalForm
  <2>. QED
    BY <2>4, <2>5
<1>4. \/ \A j \in 1 .. Len(p) : p[j] # Equal
      \/ \E i \in 1 .. Len(p) :
            p[i] = Equal /\ (\A j \in 1 .. i - 1 : p[j] # Equal) /\ IsCutAt(p, Equal, i)
  BY FirstCut
<1>. QED
  BY <1>2, <1>3, <1>4

\* Where no & stands, the pair that began last goes on.
LEMMA PartAround ==
  ASSUME NEW T, NEW q \in Seq(T), NEW i \in 1 .. Len(q), q[i] # Amp
  PROVE  \E j, l \in 0 .. Len(q) : IsPart(q, j, l) /\ j < i /\ i <= l
<1>. DEFINE Begun(k) == \E j \in 0 .. k - 1 : (j > 0 => q[j] = Amp) /\ \A m \in j + 1 .. k : q[m] # Amp
            S == {k \in Nat : k \in 1 .. Len(q) /\ q[k] # Amp => Begun(k)}
<1>0. Len(q) \in Nat
  OBVIOUS
<1>1. 0 \in S
  OBVIOUS
<1>2. ASSUME NEW k \in Nat, k \in S PROVE k + 1 \in S
  <2>. SUFFICES ASSUME k + 1 \in 1 .. Len(q), q[k + 1] # Amp PROVE Begun(k + 1)
    OBVIOUS
  <2>1. CASE k > 0 /\ q[k] # Amp
    <3>1. k \in 1 .. Len(q)
      BY <1>0, <2>1
    <3>2. PICK j \in 0 .. k - 1 : (j > 0 => q[j] = Amp) /\ \A m \in j + 1 .. k : q[m] # Amp
      BY <1>2, <2>1, <3>1
    <3>3. j \in 0 .. k + 1 - 1 /\ \A m \in j + 1 .. k + 1 : m \in j + 1 .. k \/ m = k + 1
      OBVIOUS
    <3>. QED
      BY <3>2, <3>3
  <2>2. CASE ~(k > 0 /\ q[k] # Amp)
    <3>1. k \in 0 .. k + 1 - 1 /\ \A m \in k + 1 .. k + 1 : m = k + 1
      OBVIOUS
    <3>. QED
      BY <2>2, <3>1
  <2>. QED
    BY <2>1, <2>2
<1>3. Nat \subseteq S
  <2>. HIDE DEF S
  <2>. QED
    BY <1>1, <1>2, NatSetInduction
<1>4. PICK j \in 0 .. i - 1 : (j > 0 => q[j] = Amp) /\ \A m \in j + 1 .. i : q[m] # Amp
  <2>1. i \in Nat
    OBVIOUS
  <2>. QED
    BY <1>3, <2>1
<1>. DEFINE k == IndexFrom(q, j + 1, Amp)
            l == IF k = 0 THEN Len(q) ELSE k - 1
<1>5. j \in 0 .. Len(q)
  BY <1>0
<1>6. l \in 0 .. Len(q) /\ IsPart(q, j, l)
  BY <1>4, <1>5, PartEnds
<1>. HIDE DEF l
<1>7. ~(l < i)
  <2>. SUFFICES ASSUME l < i PROVE FALSE
    OBVIOUS
  <2>1. l + 1 \in j + 1 .. i /\ q[l + 1] = Amp
    BY <1>0, <1>6 DEF IsPart
  <2>. QED
    BY <1>4, <2>1
<1>. QED
  BY <1>5, <1>6, <1>7

\* A query all of whose pairs are legal.
LegalQuery(q) == \A x \in Parts(q, Amp) : IsLegalPair(x)

\* A token of a legal query is a separator, a key, an "=", or of a value.
Placed(q, i, j) ==
  /\ \A m \in j + 1 .. i : q[m] # Amp
  /\ \/ i = j + 1 /\ q[i] \in Lower
     \/ i = j + 2 /\ q[i] = Equal
     \/ i > j + 2 /\ q[j + 2] = Equal /\ q[i] # Hash

\* Where a legal query may hold a separator.
LEMMA LegalPlaces ==
  ASSUME NEW T, NEW q \in Seq(T), LegalQuery(q), NEW i \in 1 .. Len(q), q[i] # Amp
  PROVE  \E j \in 0 .. i - 1 : Placed(q, i, j)
<1>1. PICK j \in 0 .. Len(q), l \in 0 .. Len(q) : IsPart(q, j, l) /\ j < i /\ i <= l
  BY PartAround
<1>. DEFINE p == Slice(q, j, l)
<1>2. j \in Nat /\ l \in Nat /\ j <= l /\ l <= Len(q) /\ j \in 0 .. i - 1 /\ Len(q) \in Nat
  BY <1>1
<1>3. p \in Seq(T) /\ Len(p) = l - j /\ \A k \in 1 .. l - j : p[k] = q[j + k]
  <2>1. IsSlice(T, p, q, j, l)
    BY <1>2, SliceFacts
  <2>. QED
    BY <2>1 DEF IsSlice
<1>4. IsLegalPair(p)
  <2>1. p \in Parts(q, Amp)
    BY <1>1, PartsForm
  <2>. QED
    BY <2>1 DEF LegalQuery
<1>. HIDE DEF p
<1>5. LegalForm(p)
  BY <1>3, <1>4, LegalMeans
<1>6. \A m \in j + 1 .. i : q[m] # Amp
  <2>1. \A m \in j + 1 .. i : m \in j + 1 .. l
    BY <1>1, <1>2
  <2>. QED
    BY <1>1, <2>1 DEF IsPart
<1>7. i - j \in 1 .. l - j /\ j + (i - j) = i /\ q[i] = p[i - j]
  <2>1. i - j \in 1 .. l - j /\ j + (i - j) = i
    BY <1>1, <1>2
  <2>. QED
    BY <1>3, <2>1
<1>8. CASE i = j + 1
  <2>1. i - j = 1
    BY <1>2, <1>8
  <2>. QED
    BY <1>2, <1>5, <1>6, <1>7, <1>8, <2>1 DEF LegalForm, Placed
<1>9. CASE i = j + 2
  <2>1. i - j = 2
    BY <1>2, <1>9
  <2>. QED
    BY <1>2, <1>5, <1>6, <1>7, <1>9, <2>1 DEF LegalForm, Placed
<1>10. CASE i > j + 2
  <2>1. i - j \in 3 .. Len(p) /\ 2 \in 1 .. l - j
    BY <1>2, <1>3, <1>7, <1>10
  <2>2. p[i - j] # Hash /\ p[2] = Equal
    BY <1>5, <2>1 DEF LegalForm
  <2>3. q[j + 2] = Equal
    BY <1>3, <2>1, <2>2
  <2>. QED
    BY <1>2, <1>6, <1>7, <1>10, <2>2, <2>3 DEF Placed
<1>11. i = j + 1 \/ i = j + 2 \/ i > j + 2
  BY <1>1, <1>2
<1>. QED
  BY <1>8, <1>9, <1>10, <1>11

\* A legal query begins with a key, has no # and a + only in a value.
LEMMA LegalQueryFacts ==
  ASSUME NEW T, NEW q \in Seq(T), LegalQuery(q)
  PROVE  /\ Len(q) >= 2 /\ q[1] \in Lower
         /\ \A i \in 1 .. Len(q) : q[i] # Hash /\ (q[i] = Plus => InValue(q, i))
         /\ IsQuery(q)
<1>1. Len(q) >= 2 /\ q[1] \in Lower
  <2>. DEFINE k == IndexFrom(q, 0 + 1, Amp)
              l == IF k = 0 THEN Len(q) ELSE k - 1
              p == Slice(q, 0, l)
  <2>1. 0 \in 0 .. Len(q) /\ ~(0 > 0) /\ Len(q) \in Nat
    OBVIOUS
  <2>2. l \in 0 .. Len(q) /\ IsPart(q, 0, l)
    BY <2>1, PartEnds
  <2>. HIDE DEF l
  <2>3. p \in Parts(q, Amp)
    BY <2>1, <2>2, PartsForm
  <2>4. l \in Nat /\ l <= Len(q)
    BY <2>1, <2>2
  <2>5. IsHead(T, p, q, l)
    BY <2>4, HeadSlice
  <2>. HIDE DEF p
  <2>6. p \in Seq(T) /\ Len(p) = l /\ \A j \in 1 .. l : p[j] = q[j]
    BY <2>5 DEF IsHead
  <2>7. LegalForm(p)
    BY <2>3, <2>6, LegalMeans DEF LegalQuery
  <2>8. l >= 2 /\ p[1] \in Lower
    BY <2>6, <2>7 DEF LegalForm
  <2>9. 1 \in 1 .. l /\ Len(q) >= 2
    BY <2>1, <2>4, <2>8
  <2>. QED
    BY <2>6, <2>8, <2>9
<1>2. ASSUME NEW i \in 1 .. Len(q) PROVE q[i] # Hash
  <2>1. CASE q[i] = Amp
    BY <2>1, ReadMarks
  <2>2. CASE q[i] # Amp
    <3>1. PICK j \in 0 .. i - 1 : Placed(q, i, j)
      BY <2>2, LegalPlaces
    <3>. QED
      BY <3>1, ReadMarks DEF Placed
  <2>. QED
    BY <2>1, <2>2
<1>3. ASSUME NEW i \in 1 .. Len(q), q[i] = Plus PROVE InValue(q, i)
  <2>1. q[i] # Amp
    BY <1>3, ReadMarks
  <2>2. PICK j \in 0 .. i - 1 : Placed(q, i, j)
    BY <2>1, LegalPlaces
  <2>3. i > j + 2 /\ q[j + 2] = Equal
    BY <1>3, <2>2, ReadMarks DEF Placed
  <2>4. j + 2 \in 1 .. i - 1 /\ \A m \in j + 2 .. i : m \in j + 1 .. i
    BY <2>3
  <2>5. \A m \in j + 2 .. i : q[m] # Amp
    BY <2>2, <2>4 DEF Placed
  <2>6. \E k \in 1 .. i - 1 : q[k] = Equal /\ \A m \in k .. i : q[m] # Amp
    BY <2>3, <2>4, <2>5
  <2>. QED
    BY <2>6, Zenon DEF InValue, Equal, Amp
<1>4. IsQuery(q)
  <2>1. \A x \in Parts(q, Amp) : IsPair(x)
    BY Zenon DEF LegalQuery, IsLegalPair
  <2>. QED
    BY <2>1, Zenon DEF IsQuery, Amp
<1>. QED
  BY <1>1, <1>2, <1>3, <1>4

\* What comes before a : of a legal query is a legal query.
LEMMA LegalBeforeColon ==
  ASSUME NEW T, NEW q \in Seq(T), LegalQuery(q),
         NEW t \in Nat, t + 1 <= Len(q), q[t + 1] = Colon
  PROVE  LegalQuery(Slice(q, 0, t))
<1>. DEFINE h == Slice(q, 0, t)
<1>0. Len(q) \in Nat /\ t <= Len(q) /\ 0 <= t
  OBVIOUS
<1>1. h \in Seq(T) /\ Len(h) = t /\ \A j \in 1 .. t : h[j] = q[j]
  <2>1. IsHead(T, h, q, t)
    BY <1>0, HeadSlice
  <2>. QED
    BY <2>1 DEF IsHead
<1>2. \A i, l \in Nat : i <= l /\ l <= t => Slice(h, i, l) = Slice(q, i, l)
  <2>. SUFFICES ASSUME NEW i \in Nat, NEW l \in Nat, i <= l, l <= t
                PROVE  Slice(h, i, l) = Slice(q, i, l)
    OBVIOUS
  <2>1. 0 \in Nat /\ l <= t - 0 /\ 0 + i = i /\ 0 + l = l
    OBVIOUS
  <2>2. Slice(Slice(q, 0, t), i, l) = Slice(q, 0 + i, 0 + l)
    BY <1>0, <2>1, SliceOfSlice
  <2>. QED
    BY <2>1, <2>2
<1>. HIDE DEF h
<1>3. SUFFICES ASSUME NEW x \in Parts(h, Amp) PROVE IsLegalPair(x)
  BY DEF LegalQuery, h
<1>4. PICK i \in 0 .. Len(h), l \in 0 .. Len(h) : IsPart(h, i, l) /\ x = Slice(h, i, l)
  BY <1>1, PartsForm
<1>5. i \in Nat /\ l \in Nat /\ i <= l /\ l <= t /\ x = Slice(q, i, l)
  BY <1>1, <1>2, <1>4 DEF IsPart
<1>6. (i > 0 => q[i] = Amp) /\ \A m \in i + 1 .. l : q[m] # Amp
  <2>1. i > 0 => i \in 1 .. t
    BY <1>0, <1>5
  <2>2. \A m \in i + 1 .. l : m \in 1 .. t
    BY <1>0, <1>5
  <2>. QED
    BY <1>1, <1>4, <2>1, <2>2 DEF IsPart
<1>7. CASE l < t
  <2>1. l + 1 \in 1 .. t /\ q[l + 1] = Amp
    BY <1>0, <1>1, <1>4, <1>5, <1>7 DEF IsPart
  <2>2. IsPart(q, i, l) /\ i \in 0 .. Len(q) /\ l \in 0 .. Len(q)
    BY <1>0, <1>5, <1>6, <2>1 DEF IsPart
  <2>3. x \in Parts(q, Amp)
    BY <1>5, <2>2, PartsForm
  <2>. QED
    BY <2>3 DEF LegalQuery
<1>8. CASE l = t
  <2>. DEFINE k == IndexFrom(q, i + 1, Amp)
              e == IF k = 0 THEN Len(q) ELSE k - 1
              p == Slice(q, i, e)
  <2>1. i \in 0 .. Len(q)
    BY <1>0, <1>5
  <2>2. e \in 0 .. Len(q) /\ IsPart(q, i, e)
    BY <1>6, <2>1, PartEnds
  <2>. HIDE DEF e
  <2>3. e >= t + 1
    <3>. SUFFICES ASSUME e < t + 1 PROVE FALSE
      BY <1>0, <2>2
    <3>1. e < Len(q) /\ q[e + 1] = Amp
      BY <1>0, <2>2 DEF IsPart
    <3>2. e = t \/ e + 1 \in i + 1 .. l
      BY <1>0, <1>5, <1>8, <2>2 DEF IsPart
    <3>. QED
      BY <1>6, <3>1, <3>2, ReadMarks
  <2>4. e \in Nat /\ i <= e /\ e <= Len(q)
    BY <1>0, <1>5, <2>2, <2>3
  <2>5. p \in Seq(T) /\ Len(p) = e - i /\ \A j \in 1 .. e - i : p[j] = q[i + j]
    <3>1. IsSlice(T, p, q, i, e)
      BY <1>5, <2>4, SliceFacts
    <3>. QED
      BY <3>1 DEF IsSlice
  <2>6. LegalForm(p)
    <3>1. p \in Parts(q, Amp)
      BY <2>1, <2>2, PartsForm
    <3>. QED
      BY <2>5, <3>1, LegalMeans DEF LegalQuery
  <2>. HIDE DEF p
  <2>7. x \in Seq(T) /\ Len(x) = t - i /\ \A j \in 1 .. t - i : x[j] = q[i + j]
    <3>1. IsSlice(T, Slice(q, i, l), q, i, l)
      BY <1>0, <1>5, SliceFacts
    <3>. QED
      BY <1>5, <1>8, <3>1 DEF IsSlice
  <2>8. t - i + 1 \in 1 .. e - i /\ i + (t - i + 1) = t + 1 /\ p[t - i + 1] = Colon
    <3>1. t - i + 1 \in 1 .. e - i /\ i + (t - i + 1) = t + 1
      BY <1>5, <1>8, <2>3, <2>4
    <3>. QED
      BY <2>5, <3>1
  <2>9. t - i >= 2
    <3>1. t - i + 1 # 1 /\ t - i + 1 # 2
      BY <2>6, <2>8, ReadMarks DEF LegalForm
    <3>. QED
      BY <1>5, <1>8, <3>1
  <2>10. \A j \in 1 .. Len(x) : j \in 1 .. Len(p) /\ x[j] = p[j]
    <3>1. \A j \in 1 .. t - i : j \in 1 .. e - i
      BY <1>5, <2>3, <2>4
    <3>. QED
      BY <2>5, <2>7, <3>1
  <2>11. LegalForm(x)
    <3>1. 1 \in 1 .. Len(x) /\ 2 \in 1 .. Len(x) /\ Len(x) >= 2
      BY <1>5, <2>7, <2>9
    <3>2. x[1] = p[1] /\ x[2] = p[2]
      BY <2>10, <3>1
    <3>3. \A j \in 3 .. Len(x) : j \in 3 .. Len(p) /\ x[j] = p[j]
      BY <1>5, <2>4, <2>5, <2>7, <2>10
    <3>. QED
      BY <2>6, <3>1, <3>2, <3>3 DEF LegalForm
  <2>. QED
    BY <2>7, <2>11, LegalMeans
<1>. QED
  BY <1>5, <1>7, <1>8

-----------------------------------------------------------------------------
(* The readings of a body, by the places where its parts end.              *)

Fits(s, a, b, d) ==
  /\ a <= b /\ b <= d /\ d <= Len(s)
  /\ a < Len(s) => s[a + 1] \in {Quest, Hash, Colon}
  /\ b < Len(s) => s[b + 1] \in {Hash, Colon}
  /\ d < Len(s) => IsColonDash(s, d + 1)
  /\ IsEscapedPath(Slice(s, 0, a))
  /\ a < b => s[a + 1] = Quest /\ LegalQuery(Slice(s, a + 1, b))
  /\ b < d => s[b + 1] = Hash /\ ~(b + 2 <= Len(s) /\ s[b + 2] = Hash)

\* The part from i to j behind a separator of k tokens.
Behind(s, i, k, j) == IF i = j THEN None ELSE Slice(s, i + k, j)

ReadingOf(s, a, b, d) ==
  [path |-> Unescaped(Slice(s, 0, a)), query |-> Behind(s, a, 1, b),
   field |-> Behind(s, b, 1, d), default |-> Behind(s, d, 2, Len(s))]

\* The rest of a body behind a place.
LEMMA BehindMeans ==
  ASSUME NEW T, NEW s \in Seq(T), NEW i \in Nat, NEW k \in Nat \ {0}, NEW j \in Nat,
         i = j \/ i + k <= j, j <= Len(s)
  PROVE  WithoutSeparator(Slice(s, i, j), k) = Behind(s, i, k, j)
<1>. DEFINE p == Slice(s, i, j)
<1>1. i <= j /\ Len(s) \in Nat
  OBVIOUS
<1>2. p \in Seq(T) /\ Len(p) = j - i
  <2>1. IsSlice(T, p, s, i, j)
    BY <1>1, SliceFacts
  <2>. QED
    BY <2>1 DEF IsSlice
<1>3. CASE i = j
  <2>. HIDE DEF p
  <2>1. p = <<>>
    BY <1>2, <1>3
  <2>2. WithoutSeparator(p, k) = None
    BY <2>1, Zenon DEF WithoutSeparator
  <2>. QED
    BY <1>3, <2>2 DEF Behind, p
<1>4. CASE i # j
  <2>1. k <= j - i /\ j - i \in Nat /\ k \in Nat /\ i + (j - i) = j
    BY <1>1, <1>4
  <2>2. Slice(Slice(s, i, j), k, j - i) = Slice(s, i + k, i + (j - i))
    BY <1>1, <2>1, SliceOfSlice
  <2>3. Slice(p, k, Len(p)) = Slice(s, i + k, j)
    BY <1>2, <2>1, <2>2
  <2>. HIDE DEF p
  <2>4. p # <<>>
    BY <1>1, <1>2, <1>4
  <2>5. WithoutSeparator(p, k) = Slice(p, k, Len(p))
    BY <2>4, Zenon DEF WithoutSeparator, Slice
  <2>. QED
    BY <1>4, <2>3, <2>5, Zenon DEF Behind, p
<1>. QED
  BY <1>3, <1>4

\* The readings of a body, as the places where its parts end.
LEMMA ReadingsForm ==
  ASSUME NEW T, NEW s \in Seq(T), NEW r
  PROVE  r \in Readings(s)
         <=> \E a, b, d \in 0 .. Len(s) : Fits(s, a, b, d) /\ r = ReadingOf(s, a, b, d)
<1>. DEFINE n == Len(s)
            D == 0 .. n
            Part(i, j) == SubSeq(s, i + 1, j)
            Starts(token) == {i \in 0 .. n - 1 : s[i + 1] = token}
            As == Starts(Quest) \cup Starts(Hash) \cup Starts(Colon) \cup {n}
            Bs == Starts(Hash) \cup Starts(Colon) \cup {n}
            Ds == Starts(Colon) \cup {n}
            Cut3(x) ==
               /\ x[1] <= x[2] /\ x[2] <= x[3]
               /\ x[1] < x[2] => s[x[1] + 1] = Quest
               /\ x[2] < x[3] => s[x[2] + 1] = Hash /\ ~HasAt(s, x[2] + 1, <<Hash, Hash>>)
               /\ x[3] < n => IsDefaultAt(s, x[3] + 1)
               /\ IsEscapedPath(Part(0, x[1]))
               /\ x[1] < x[2] => \A p \in Parts(Part(x[1] + 1, x[2]), Amp) : IsLegalPair(p)
            Pieces(x) == <<Part(0, x[1]), Part(x[1], x[2]), Part(x[2], x[3]), Part(x[3], n)>>
            Read(c) == [path |-> Unescaped(c[1]), query |-> WithoutSeparator(c[2], 1),
                        field |-> WithoutSeparator(c[3], 1), default |-> WithoutSeparator(c[4], 2)]
<1>0. n \in Nat
  OBVIOUS
<1>1. Cuttings(s) = {Pieces(x) : x \in {y \in As \X Bs \X Ds : Cut3(y)}}
  BY Zenon DEF Cuttings, Quest, Hash, Colon, Amp
<1>2. Readings(s) = {Read(c) : c \in Cuttings(s)}
  BY Zenon DEF Readings
<1>3. r \in Readings(s)
      <=> \E a \in As, b \in Bs, d \in Ds : Cut3(<<a, b, d>>) /\ r = Read(Pieces(<<a, b, d>>))
  <2>. HIDE DEF Cut3, Pieces, Read, As, Bs, Ds
  <2>1. r \in Readings(s) <=> \E x \in As \X Bs \X Ds : Cut3(x) /\ r = Read(Pieces(x))
    BY <1>1, <1>2
  <2>2. ASSUME NEW x \in As \X Bs \X Ds
        PROVE  \E a \in As, b \in Bs, d \in Ds : x = <<a, b, d>>
    OBVIOUS
  <2>3. ASSUME NEW a \in As, NEW b \in Bs, NEW d \in Ds PROVE <<a, b, d>> \in As \X Bs \X Ds
    OBVIOUS
  <2>. DEFINE Good(x) == Cut3(x) /\ r = Read(Pieces(x))
  <2>4. ASSUME NEW x \in As \X Bs \X Ds, Good(x)
        PROVE  \E a \in As, b \in Bs, d \in Ds : Good(<<a, b, d>>)
    <3>1. PICK a \in As, b \in Bs, d \in Ds : x = <<a, b, d>>
      BY <2>2
    <3>2. Good(<<a, b, d>>)
      BY <2>4, <3>1, Zenon
    <3>. HIDE DEF Good
    <3>. QED
      BY <3>2
  <2>5. ASSUME NEW a \in As, NEW b \in Bs, NEW d \in Ds, Good(<<a, b, d>>)
        PROVE  \E x \in As \X Bs \X Ds : Good(x)
    <3>. HIDE DEF Good
    <3>. QED
      BY <2>3, <2>5, Zenon
  <2>. QED
    BY <2>1, <2>4, <2>5, Zenon
<1>4. ASSUME NEW a \in D
      PROVE  /\ a \in As <=> (a < n => s[a + 1] \in {Quest, Hash, Colon})
             /\ a \in Bs <=> (a < n => s[a + 1] \in {Hash, Colon})
             /\ a \in Ds <=> (a < n => s[a + 1] = Colon)
  BY <1>0
<1>5. As \subseteq D /\ Bs \subseteq D /\ Ds \subseteq D
  BY <1>0
<1>. HIDE DEF As, Bs, Ds
<1>6. ASSUME NEW a \in D, NEW b \in D, NEW d \in D
      PROVE  a \in As /\ b \in Bs /\ d \in Ds /\ Cut3(<<a, b, d>>) <=> Fits(s, a, b, d)
  <2>1. IsEscapedPath(Part(0, a)) <=> IsEscapedPath(Slice(s, 0, a))
    BY Zenon DEF Slice
  <2>2. (\A p \in Parts(Part(a + 1, b), Amp) : IsLegalPair(p)) <=> LegalQuery(Slice(s, a + 1, b))
    BY Zenon DEF Slice, LegalQuery
  <2>3. b < n => (HasAt(s, b + 1, <<Hash, Hash>>) <=> b + 2 <= n /\ s[b + 1] = Hash /\ s[b + 2] = Hash)
    <3>. SUFFICES ASSUME b < n
                  PROVE  HasAt(s, b + 1, <<Hash, Hash>>)
                         <=> b + 2 <= n /\ s[b + 1] = Hash /\ s[b + 2] = Hash
      OBVIOUS
    <3>1. b + 1 \in 1 .. Len(s) /\ b + 1 + 1 = b + 2
      BY <1>0
    <3>2. HasAt(s, b + 1, <<Hash, Hash>>)
          <=> b + 1 + 1 <= Len(s) /\ s[b + 1] = Hash /\ s[b + 1 + 1] = Hash
      BY <3>1, HasTwoAt
    <3>. QED
      BY <3>1, <3>2
  <2>4. d < n => (IsDefaultAt(s, d + 1) <=> IsColonDash(s, d + 1))
    <3>1. d < n => d + 1 \in 1 .. Len(s)
      BY <1>0
    <3>. QED
      BY <3>1, DefaultForm
  <2>5. Cut3(<<a, b, d>>)
        <=> /\ a <= b /\ b <= d
            /\ a < b => s[a + 1] = Quest
            /\ b < d => s[b + 1] = Hash /\ ~HasAt(s, b + 1, <<Hash, Hash>>)
            /\ d < n => IsDefaultAt(s, d + 1)
            /\ IsEscapedPath(Part(0, a))
            /\ a < b => \A p \in Parts(Part(a + 1, b), Amp) : IsLegalPair(p)
    <3>1. <<a, b, d>>[1] = a /\ <<a, b, d>>[2] = b /\ <<a, b, d>>[3] = d
      OBVIOUS
    <3>. HIDE DEF Part
    <3>. QED
      BY <3>1, Zenon
  <2>6. a < n => s[a + 1] \in {Quest, Hash, Colon} <=> a \in As
    BY <1>4
  <2>. HIDE DEF Cut3, Part
  <2>7. d < n /\ IsColonDash(s, d + 1) => s[d + 1] = Colon
    BY DEF IsColonDash
  <2>8. a <= n /\ b <= n /\ d <= n
    BY <1>0
  <2>9. (b < d => b < n)
    BY <1>0
  <2>10. /\ a \in As <=> (a < n => s[a + 1] \in {Quest, Hash, Colon})
         /\ b \in Bs <=> (b < n => s[b + 1] \in {Hash, Colon})
         /\ d \in Ds <=> (d < n => s[d + 1] = Colon)
    BY <1>4
  <2>. QED
    BY <2>1, <2>2, <2>3, <2>4, <2>5, <2>7, <2>8, <2>9, <2>10, Zenon DEF Fits
<1>7. ASSUME NEW a \in D, NEW b \in D, NEW d \in D, Fits(s, a, b, d)
      PROVE  Read(Pieces(<<a, b, d>>)) = ReadingOf(s, a, b, d)
  <2>1. /\ a \in Nat /\ b \in Nat /\ d \in Nat /\ n \in Nat /\ 1 \in Nat \ {0} /\ 2 \in Nat \ {0}
        /\ a = b \/ a + 1 <= b
        /\ b = d \/ b + 1 <= d
        /\ b <= n /\ d <= n /\ n <= n
    BY <1>0, <1>7 DEF Fits
  <2>2. d = n \/ d + 2 <= n
    BY <1>0, <1>7 DEF Fits, IsColonDash
  <2>3. WithoutSeparator(Slice(s, a, b), 1) = Behind(s, a, 1, b)
    BY <2>1, BehindMeans
  <2>4. WithoutSeparator(Slice(s, b, d), 1) = Behind(s, b, 1, d)
    BY <2>1, BehindMeans
  <2>5. WithoutSeparator(Slice(s, d, n), 2) = Behind(s, d, 2, n)
    BY <2>1, <2>2, BehindMeans
  <2>6. LET c == Pieces(<<a, b, d>>) IN
        /\ c[1] = Slice(s, 0, a) /\ c[2] = Slice(s, a, b) /\ c[3] = Slice(s, b, d)
        /\ c[4] = Slice(s, d, n)
    BY DEF Slice
  <2>. HIDE DEF Pieces, n
  <2>. QED
    BY <2>3, <2>4, <2>5, <2>6, Zenon DEF ReadingOf, n
<1>. HIDE DEF Cut3, Pieces, Read
<1>8. ASSUME NEW a \in As, NEW b \in Bs, NEW d \in Ds, Cut3(<<a, b, d>>),
             r = Read(Pieces(<<a, b, d>>))
      PROVE  \E x, y, z \in D : Fits(s, x, y, z) /\ r = ReadingOf(s, x, y, z)
  <2>1. a \in D /\ b \in D /\ d \in D
    BY <1>5
  <2>2. Fits(s, a, b, d)
    BY <1>6, <1>8, <2>1
  <2>3. r = ReadingOf(s, a, b, d)
    BY <1>7, <1>8, <2>1, <2>2
  <2>. QED
    BY <2>1, <2>2, <2>3
<1>9. ASSUME NEW a \in D, NEW b \in D, NEW d \in D, Fits(s, a, b, d), r = ReadingOf(s, a, b, d)
      PROVE  r \in Readings(s)
  <2>1. a \in As /\ b \in Bs /\ d \in Ds /\ Cut3(<<a, b, d>>)
    BY <1>6, <1>9
  <2>2. r = Read(Pieces(<<a, b, d>>))
    BY <1>7, <1>9
  <2>. QED
    BY <1>3, <2>1, <2>2
<1>. QED
  BY <1>3, <1>8, <1>9

\* The places of a reading are in order.
LEMMA FitsShape ==
  ASSUME NEW T, NEW s \in Seq(T), NEW a \in Nat, NEW b \in Nat, NEW e \in Nat, Fits(s, a, b, e)
  PROVE  Shape(s, a, b, e)
<1>0. a <= b /\ b <= e /\ e <= Len(s) /\ Len(s) \in Nat
  BY DEF Fits
<1>1. IsEscapedPath(Slice(s, 0, a))
  BY DEF Fits
<1>2. ASSUME a < b
      PROVE  /\ s[a + 1] = Quest /\ a + 2 <= b /\ s[a + 2] # Quest
             /\ \A j \in a + 2 .. b : s[j] # Hash
  <2>. DEFINE q == Slice(s, a + 1, b)
  <2>0. a + 1 \in Nat /\ a + 1 <= b /\ b <= Len(s)
    BY <1>0, <1>2
  <2>1. q \in Seq(T) /\ Len(q) = b - (a + 1) /\ \A k \in 1 .. b - (a + 1) : q[k] = s[a + 1 + k]
    <3>1. IsSlice(T, q, s, a + 1, b)
      BY <2>0, SliceFacts
    <3>. QED
      BY <3>1 DEF IsSlice
  <2>2. LegalQuery(q) /\ s[a + 1] = Quest
    BY <1>2 DEF Fits
  <2>. HIDE DEF q
  <2>3. Len(q) >= 2 /\ q[1] \in Lower /\ \A i \in 1 .. Len(q) : q[i] # Hash
    BY <2>1, <2>2, LegalQueryFacts
  <2>4. a + 2 <= b /\ 1 \in 1 .. b - (a + 1) /\ a + 1 + 1 = a + 2
    BY <1>0, <2>1, <2>3
  <2>5. s[a + 2] # Quest
    BY <2>1, <2>3, <2>4, ReadMarks
  <2>6. ASSUME NEW j \in a + 2 .. b PROVE s[j] # Hash
    <3>1. j - (a + 1) \in 1 .. b - (a + 1) /\ a + 1 + (j - (a + 1)) = j
      BY <1>0
    <3>. QED
      BY <2>1, <2>3, <3>1
  <2>. QED
    BY <2>2, <2>4, <2>5, <2>6
<1>3. ASSUME b < e PROVE s[b + 1] = Hash /\ ~(b + 2 <= e /\ s[b + 2] = Hash)
  <2>1. b + 2 <= e => b + 2 <= Len(s)
    BY <1>0
  <2>. QED
    BY <1>3, <2>1 DEF Fits
<1>. QED
  BY <1>0, <1>1, <1>2, <1>3 DEF Shape

\* The first :- that no : precedes is at e + 1, or there is none and e is the end.
IsFirstDefault(s, e) ==
  /\ e <= Len(s)
  /\ e < Len(s) => IsColonDash(s, e + 1)
  /\ \A j \in 1 .. e : ~IsColonDash(s, j)

\* A text without a default separator, or with a first one.
LEMMA FirstDefault ==
  ASSUME NEW T, NEW s \in Seq(T)
  PROVE  \E e \in 0 .. Len(s) : IsFirstDefault(s, e)
<1>0. Len(s) \in Nat
  OBVIOUS
<1>. DEFINE Clear(k) == \A j \in 1 .. k : ~IsColonDash(s, j)
            Found(k) == \E e \in 0 .. Len(s) : IsFirstDefault(s, e)
            S == {k \in Nat : k <= Len(s) => Clear(k) \/ Found(k)}
<1>1. 0 \in S
  OBVIOUS
<1>2. ASSUME NEW k \in Nat, k \in S PROVE k + 1 \in S
  <2>. SUFFICES ASSUME k + 1 <= Len(s), ~Found(k + 1) PROVE Clear(k + 1)
    OBVIOUS
  <2>1. Clear(k)
    BY <1>0, <1>2
  <2>2. ~IsColonDash(s, k + 1)
    <3>. SUFFICES ASSUME IsColonDash(s, k + 1) PROVE FALSE
      OBVIOUS
    <3>1. IsFirstDefault(s, k) /\ k \in 0 .. Len(s)
      BY <1>0, <2>1 DEF IsFirstDefault
    <3>. QED
      BY <3>1
  <2>3. \A j \in 1 .. k + 1 : j \in 1 .. k \/ j = k + 1
    OBVIOUS
  <2>. QED
    BY <2>1, <2>2, <2>3
<1>3. Nat \subseteq S
  <2>. HIDE DEF S
  <2>. QED
    BY <1>1, <1>2, NatSetInduction
<1>4. Clear(Len(s)) \/ Found(Len(s))
  BY <1>0, <1>3
<1>5. Clear(Len(s)) => IsFirstDefault(s, Len(s)) /\ Len(s) \in 0 .. Len(s)
  BY <1>0 DEF IsFirstDefault
<1>. QED
  BY <1>4, <1>5

\* A reading that ends later can be cut at the first default.
LEMMA CutAtDefault ==
  ASSUME NEW T, NEW s \in Seq(T), NEW a \in Nat, NEW b \in Nat, NEW d \in Nat, Fits(s, a, b, d),
         NEW e \in Nat, IsFirstDefault(s, e)
  PROVE  a <= e /\ e <= d /\ Fits(s, a, IF b < e THEN b ELSE e, e)
<1>0. a <= b /\ b <= d /\ d <= Len(s) /\ Len(s) \in Nat /\ e <= Len(s) /\ 0 <= a /\ a <= Len(s)
  BY DEF Fits, IsFirstDefault
<1>1. e <= d
  <2>. SUFFICES ASSUME d < e PROVE FALSE
    BY <1>0
  <2>1. IsColonDash(s, d + 1)
    BY <1>0 DEF Fits
  <2>2. d + 1 \in 1 .. e
    BY <1>0
  <2>. QED
    BY <2>1, <2>2 DEF IsFirstDefault
<1>2. a <= e
  <2>. SUFFICES ASSUME e < a PROVE FALSE
    BY <1>0
  <2>1. IsColonDash(s, e + 1)
    BY <1>0 DEF IsFirstDefault
  <2>2. e + 2 <= Len(s) /\ s[e + 1] = Colon /\ s[e + 2] = Dash /\ (e > 0 => s[e] # Colon)
    <3>1. e + 1 + 1 = e + 2 /\ e + 1 - 1 = e /\ (e + 1 > 1 <=> e > 0)
      OBVIOUS
    <3>. QED
      BY <2>1, <3>1 DEF IsColonDash
  <2>3. CASE e + 2 <= a
    <3>. DEFINE p == Slice(s, 0, a)
    <3>1. p \in Seq(T) /\ Len(p) = a /\ \A j \in 1 .. a : p[j] = s[j]
      <4>1. IsHead(T, p, s, a)
        BY <1>0, HeadSlice
      <4>. QED
        BY <4>1 DEF IsHead
    <3>2. IsEscapedPath(p)
      BY DEF Fits
    <3>. HIDE DEF p
    <3>3. e + 1 \in 1 .. Len(p)
      BY <1>0, <2>3, <3>1
    <3>4. ~IsColonDash(p, e + 1)
      BY <3>1, <3>2, <3>3, EscapedHasNoDefault
    <3>5. e + 1 \in 1 .. a /\ e + 2 \in 1 .. a /\ (e > 0 => e \in 1 .. a)
          /\ e + 1 + 1 = e + 2 /\ e + 1 - 1 = e /\ (e + 1 > 1 <=> e > 0)
      BY <1>0, <2>3
    <3>6. p[e + 1] = Colon /\ p[e + 2] = Dash /\ (e > 0 => p[e] # Colon)
      BY <2>2, <3>1, <3>5
    <3>. QED
      BY <2>3, <3>1, <3>4, <3>5, <3>6 DEF IsColonDash
  <2>4. CASE ~(e + 2 <= a)
    <3>1. a = e + 1 /\ a < Len(s) /\ a + 1 = e + 2
      BY <1>0, <2>2, <2>4
    <3>2. s[e + 2] \in {Quest, Hash, Colon}
      BY <3>1 DEF Fits
    <3>. QED
      BY <2>2, <3>2, ReadMarks
  <2>. QED
    BY <2>3, <2>4
<1>. DEFINE c == IF b < e THEN b ELSE e
<1>3. c \in Nat /\ a <= c /\ c <= e /\ c <= b
  BY <1>0, <1>1, <1>2
<1>4. e < Len(s) => IsColonDash(s, e + 1) /\ s[e + 1] = Colon
  BY DEF IsFirstDefault, IsColonDash
<1>5. c < Len(s) => s[c + 1] \in {Hash, Colon}
  <2>1. CASE b < e
    BY <2>1 DEF Fits
  <2>2. CASE ~(b < e)
    BY <1>4, <2>2
  <2>. QED
    BY <2>1, <2>2
<1>6. a < c => s[a + 1] = Quest /\ LegalQuery(Slice(s, a + 1, c))
  <2>. SUFFICES ASSUME a < c PROVE s[a + 1] = Quest /\ LegalQuery(Slice(s, a + 1, c))
    OBVIOUS
  <2>. DEFINE q == Slice(s, a + 1, b)
  <2>1. s[a + 1] = Quest /\ LegalQuery(q)
    BY <1>3 DEF Fits
  <2>2. CASE c = b
    BY <2>1, <2>2
  <2>3. CASE c # b
    <3>1. c = e /\ e < b /\ e < Len(s)
      BY <1>0, <1>3, <2>3
    <3>2. a + 1 \in Nat /\ a + 1 <= b /\ b <= Len(s) /\ e - (a + 1) \in Nat
          /\ 0 <= e - (a + 1) /\ e - (a + 1) <= b - (a + 1)
          /\ e - (a + 1) + 1 \in 1 .. b - (a + 1) /\ a + 1 + (e - (a + 1) + 1) = e + 1
          /\ a + 1 + (e - (a + 1)) = e /\ a + 1 + 0 = a + 1
      BY <1>0, <1>3, <3>1
    <3>3. q \in Seq(T) /\ Len(q) = b - (a + 1) /\ \A k \in 1 .. b - (a + 1) : q[k] = s[a + 1 + k]
      <4>1. IsSlice(T, q, s, a + 1, b)
        BY <1>0, <3>2, SliceFacts
      <4>. QED
        BY <4>1 DEF IsSlice
    <3>4. Slice(q, 0, e - (a + 1)) = Slice(s, a + 1, c)
      <4>1. 0 \in Nat
        OBVIOUS
      <4>2. Slice(Slice(s, a + 1, b), 0, e - (a + 1)) = Slice(s, a + 1 + 0, a + 1 + (e - (a + 1)))
        BY <3>2, <4>1, SliceOfSlice
      <4>. QED
        BY <3>1, <3>2, <4>2
    <3>. HIDE DEF q
    <3>5. q[e - (a + 1) + 1] = Colon /\ e - (a + 1) + 1 <= Len(q)
      <4>1. e - (a + 1) + 1 <= Len(q)
        BY <3>2, <3>3
      <4>2. q[e - (a + 1) + 1] = s[a + 1 + (e - (a + 1) + 1)]
        BY <3>2, <3>3
      <4>3. s[e + 1] = Colon
        BY <1>4, <3>1
      <4>4. a + 1 + (e - (a + 1) + 1) = e + 1
        BY <3>2
      <4>. QED
        BY <4>1, <4>2, <4>3, <4>4, Zenon
    <3>6. LegalQuery(Slice(q, 0, e - (a + 1)))
      BY <2>1, <3>2, <3>3, <3>5, LegalBeforeColon
    <3>. QED
      BY <2>1, <3>4, <3>6
  <2>. QED
    BY <2>2, <2>3
<1>7. c < e => s[c + 1] = Hash /\ ~(c + 2 <= Len(s) /\ s[c + 2] = Hash)
  <2>1. c < e => c = b /\ b < d
    BY <1>0, <1>1
  <2>. QED
    BY <2>1 DEF Fits
<1>8. (a < Len(s) => s[a + 1] \in {Quest, Hash, Colon}) /\ IsEscapedPath(Slice(s, 0, a))
  BY DEF Fits
<1>. HIDE DEF c
<1>9. Fits(s, a, c, e)
  BY <1>0, <1>3, <1>4, <1>5, <1>6, <1>7, <1>8 DEF Fits
<1>. QED
  BY <1>1, <1>2, <1>9 DEF c

-----------------------------------------------------------------------------
(* The parser on a body that has a reading.                                *)

\* SplitDefault cuts at the first default separator.
LEMMA SplitAtDefault ==
  ASSUME NEW T, NEW s \in Seq(T), NEW e \in Nat, IsFirstDefault(s, e)
  PROVE  SplitDefault(s) = IF e < Len(s) THEN Cut(s, e + 1, 2) ELSE Whole(s)
<1>. DEFINE flags == [j \in DOMAIN s |-> IsDefaultAt(s, j)]
            i == SelectInSeq(flags, LAMBDA b : b)
            I == {j \in 1 .. Len(flags) : flags[j]}
            J == {j \in 1 .. Len(s) : IsColonDash(s, j)}
<1>1. SplitDefault(s) = IF i = 0 THEN Whole(s) ELSE Cut(s, i, 2)
  BY DEF SplitDefault
<1>2. I = J
  <2>1. Len(flags) = Len(s) /\ Len(s) \in Nat
    OBVIOUS
  <2>2. \A j \in 1 .. Len(s) : flags[j] <=> IsColonDash(s, j)
    <3>. SUFFICES ASSUME NEW j \in 1 .. Len(s) PROVE flags[j] <=> IsColonDash(s, j)
      OBVIOUS
    <3>1. flags[j] = IsDefaultAt(s, j)
      OBVIOUS
    <3>2. IsDefaultAt(s, j) <=> IsColonDash(s, j)
      BY DefaultForm
    <3>. HIDE DEF flags
    <3>. QED
      BY <3>1, <3>2, Zenon
  <2>. HIDE DEF flags
  <2>. QED
    BY <2>1, <2>2
<1>3. i = IF J # {} THEN Min(J) ELSE 0
  <2>1. i = IF I # {} THEN Min(I) ELSE 0
    BY DEF SelectInSeq
  <2>. HIDE DEF i, I, J
  <2>. QED
    BY <1>2, <2>1
<1>. HIDE DEF i, I
<1>4. CASE e < Len(s)
  <2>1. e + 1 \in J /\ J \subseteq Nat
    BY <1>4 DEF IsFirstDefault
  <2>2. Min(J) \in J /\ \A y \in J : Min(J) <= y
    <3>1. J # {}
      BY <2>1
    <3>. HIDE DEF J
    <3>. QED
      BY <2>1, <3>1, SmallestNumber DEF Min
  <2>3. Min(J) = e + 1
    <3>. DEFINE m == Min(J)
    <3>1. m \in 1 .. Len(s) /\ IsColonDash(s, m) /\ m <= e + 1
      BY <2>1, <2>2
    <3>. HIDE DEF m
    <3>2. ~(m < e + 1)
      <4>1. m < e + 1 => m \in 1 .. e
        BY <3>1
      <4>. QED
        BY <3>1, <4>1 DEF IsFirstDefault
    <3>3. m = e + 1
      BY <3>1, <3>2
    <3>. QED
      BY <3>3 DEF m
  <2>4. J # {}
    BY <2>1
  <2>. HIDE DEF J
  <2>5. i = e + 1 /\ i # 0
    BY <1>3, <2>3, <2>4
  <2>. QED
    BY <1>1, <1>4, <2>5
<1>5. CASE ~(e < Len(s))
  <2>1. J = {}
    BY <1>5 DEF IsFirstDefault
  <2>. HIDE DEF J
  <2>2. i = 0
    BY <1>3, <2>1
  <2>. QED
    BY <1>1, <1>5, <2>2
<1>. QED
  BY <1>4, <1>5

\* The text between ${secret: and }, for a scheme of one token.
IsInner(s, body) ==
  Len(s) >= 2 /\ s[1] \in Lower /\ s[2] = Colon /\ body = Slice(s, 2, Len(s))

\* A body that begins with the default separator, or would complete it.
BeginsDashed(body) ==
  \/ Len(body) >= 2 /\ body[1] = Colon /\ body[2] = Dash
  \/ Len(body) >= 1 /\ body[1] = Dash

\* The body of an inner text is a text.
LEMMA InnerBody ==
  ASSUME NEW T, NEW s \in Seq(T), NEW body, IsInner(s, body)
  PROVE  /\ body \in Seq(T) /\ Len(s) = Len(body) + 2 /\ Len(body) \in Nat
         /\ \A j \in 1 .. Len(body) : body[j] = s[j + 2]
         /\ \A i, j \in Nat : i <= j /\ j <= Len(body) => Slice(body, i, j) = Slice(s, i + 2, j + 2)
<1>1. 2 \in Nat /\ Len(s) \in Nat /\ 2 <= Len(s) /\ Len(s) <= Len(s) /\ body = Slice(s, 2, Len(s))
  BY DEF IsInner
<1>2. IsSlice(T, body, s, 2, Len(s))
  BY <1>1, SliceFacts
<1>3. body \in Seq(T) /\ Len(body) = Len(s) - 2 /\ \A k \in 1 .. Len(s) - 2 : body[k] = s[2 + k]
  BY <1>2 DEF IsSlice
<1>4. Len(s) = Len(body) + 2 /\ Len(body) \in Nat /\ \A k \in 1 .. Len(body) : 2 + k = k + 2
  BY <1>1, <1>3
<1>5. \A j \in 1 .. Len(body) : body[j] = s[j + 2]
  BY <1>3, <1>4
<1>6. ASSUME NEW i \in Nat, NEW j \in Nat, i <= j, j <= Len(body)
      PROVE  Slice(body, i, j) = Slice(s, i + 2, j + 2)
  <2>1. j <= Len(s) - 2 /\ 2 + i = i + 2 /\ 2 + j = j + 2
    BY <1>3, <1>6
  <2>. DEFINE n == Len(s)
  <2>2. s \in Seq(T) /\ n \in Nat /\ n <= Len(s) /\ 2 \in Nat /\ 2 <= n /\ j <= n - 2
        /\ body = Slice(s, 2, n)
    BY <1>1, <2>1
  <2>. HIDE DEF n
  <2>3. Slice(Slice(s, 2, n), i, j) = Slice(s, 2 + i, 2 + j)
    BY <1>6, <2>2, SliceOfSlice
  <2>. QED
    BY <2>1, <2>2, <2>3
<1>. QED
  BY <1>3, <1>4, <1>5, <1>6

\* The scheme does not move the default, but for a body that begins with one.
LEMMA InnerDefault ==
  ASSUME NEW T, NEW s \in Seq(T), NEW body, IsInner(s, body), ~BeginsDashed(body),
         NEW e \in Nat, IsFirstDefault(body, e)
  PROVE  IsFirstDefault(s, e + 2)
<1>1. /\ body \in Seq(T) /\ Len(s) = Len(body) + 2 /\ Len(body) \in Nat
      /\ \A j \in 1 .. Len(body) : body[j] = s[j + 2]
  BY InnerBody
<1>2. s[1] \in Lower /\ s[2] = Colon
  BY DEF IsInner
<1>3. ASSUME NEW j \in 1 .. Len(body) PROVE IsColonDash(body, j) <=> IsColonDash(s, j + 2)
  <2>1. /\ j + 1 <= Len(body) <=> j + 2 + 1 <= Len(s)
        /\ j + 1 <= Len(body) => j + 1 \in 1 .. Len(body) /\ j + 1 + 2 = j + 2 + 1
        /\ j > 1 => j - 1 \in 1 .. Len(body) /\ j - 1 + 2 = j + 2 - 1
        /\ j + 2 > 1
    BY <1>1
  <2>2. ASSUME NEW k \in 1 .. Len(body), NEW l, k + 2 = l PROVE body[k] = s[l]
    BY <1>1, <2>2
  <2>3. body[j] = s[j + 2] /\ (j + 1 <= Len(body) => body[j + 1] = s[j + 2 + 1])
        /\ (j > 1 => body[j - 1] = s[j + 2 - 1])
    <3>1. body[j] = s[j + 2]
      BY <1>1
    <3>2. ASSUME j + 1 <= Len(body) PROVE body[j + 1] = s[j + 2 + 1]
      BY <2>1, <2>2, <3>2
    <3>3. ASSUME j > 1 PROVE body[j - 1] = s[j + 2 - 1]
      BY <2>1, <2>2, <3>3
    <3>. QED
      BY <3>1, <3>2, <3>3
  <2>4. CASE j > 1
    BY <2>1, <2>3, <2>4 DEF IsColonDash
  <2>5. CASE ~(j > 1)
    <3>1. j = 1
      BY <2>5
    <3>2. ~IsColonDash(body, j)
      BY <3>1 DEF IsColonDash, BeginsDashed
    <3>3. ~IsColonDash(s, j + 2)
      BY <1>2, <3>1 DEF IsColonDash
    <3>. QED
      BY <3>2, <3>3
  <2>. QED
    BY <2>4, <2>5
<1>4. ~IsColonDash(s, 1) /\ ~IsColonDash(s, 2)
  <2>1. s[1] # Colon
    BY <1>2, ReadMarks
  <2>2. 3 <= Len(s) => s[3] # Dash
    <3>1. 3 <= Len(s) => 1 \in 1 .. Len(body) /\ 1 + 2 = 3 /\ Len(body) >= 1
      BY <1>1
    <3>. QED
      BY <1>1, <3>1 DEF BeginsDashed
  <2>. QED
    BY <2>1, <2>2 DEF IsColonDash
<1>5. e <= Len(body) /\ (e < Len(body) => IsColonDash(body, e + 1))
      /\ \A j \in 1 .. e : ~IsColonDash(body, j)
  BY DEF IsFirstDefault
<1>6. e + 2 <= Len(s)
  BY <1>1, <1>5
<1>7. e + 2 < Len(s) => IsColonDash(s, e + 2 + 1)
  <2>. SUFFICES ASSUME e + 2 < Len(s) PROVE IsColonDash(s, e + 2 + 1)
    OBVIOUS
  <2>1. e < Len(body) /\ e + 1 \in 1 .. Len(body) /\ e + 1 + 2 = e + 2 + 1
    BY <1>1
  <2>2. IsColonDash(s, e + 1 + 2)
    BY <1>3, <1>5, <2>1
  <2>. QED
    BY <2>1, <2>2
<1>8. ASSUME NEW j \in 1 .. e + 2 PROVE ~IsColonDash(s, j)
  <2>1. CASE j <= 2
    <3>1. j = 1 \/ j = 2
      BY <2>1
    <3>. QED
      BY <1>4, <3>1
  <2>2. CASE j > 2
    <3>1. j - 2 \in 1 .. e /\ j - 2 \in 1 .. Len(body) /\ j - 2 + 2 = j
      BY <1>5, <2>2
    <3>2. IsColonDash(body, j - 2) <=> IsColonDash(s, j - 2 + 2)
      BY <1>3, <3>1
    <3>. QED
      BY <1>5, <3>1, <3>2
  <2>. QED
    BY <2>1, <2>2
<1>. QED
  BY <1>6, <1>7, <1>8 DEF IsFirstDefault

\* The two sides of the default.
LEMMA InnerSplit ==
  ASSUME NEW T, NEW s \in Seq(T), NEW body, IsInner(s, body), ~BeginsDashed(body),
         NEW e \in Nat, IsFirstDefault(body, e)
  PROVE  SplitDefault(s) = [head |-> Slice(s, 0, e + 2), tail |-> Behind(body, e, 2, Len(body))]
<1>1. /\ body \in Seq(T) /\ Len(s) = Len(body) + 2 /\ Len(body) \in Nat
      /\ \A i, j \in Nat : i <= j /\ j <= Len(body) => Slice(body, i, j) = Slice(s, i + 2, j + 2)
  BY InnerBody
<1>2. IsFirstDefault(s, e + 2) /\ e + 2 \in Nat
  BY InnerDefault
<1>3. SplitDefault(s) = IF e + 2 < Len(s) THEN Cut(s, e + 2 + 1, 2) ELSE Whole(s)
  BY <1>2, SplitAtDefault
<1>4. e <= Len(body)
  BY DEF IsFirstDefault
<1>5. CASE e < Len(body)
  <2>1. e + 2 < Len(s) /\ e + 2 + 1 - 1 = e + 2 /\ e + 2 + 1 + 2 = e + 2 + 2 + 1 /\ 0 + 1 = 1
        /\ e + 2 \in Nat /\ e # Len(body)
    BY <1>1, <1>5
  <2>2. e + 2 <= Len(body)
    <3>1. IsColonDash(body, e + 1)
      BY <1>5 DEF IsFirstDefault
    <3>. QED
      BY <1>1, <3>1 DEF IsColonDash
  <2>3. Cut(s, e + 2 + 1, 2) = [head |-> Slice(s, 0, e + 2), tail |-> Slice(s, e + 2 + 2, Len(s))]
    BY <2>1 DEF Cut, Slice
  <2>4. Slice(body, e + 2, Len(body)) = Slice(s, e + 2 + 2, Len(body) + 2)
    BY <1>1, <2>1, <2>2
  <2>5. Slice(s, e + 2 + 2, Len(s)) = Behind(body, e, 2, Len(body))
    BY <1>1, <2>1, <2>4 DEF Behind
  <2>. QED
    BY <1>3, <2>1, <2>3, <2>5
<1>6. CASE ~(e < Len(body))
  <2>1. e = Len(body) /\ e + 2 = Len(s) /\ ~(e + 2 < Len(s)) /\ 0 + 1 = 1
    BY <1>1, <1>4, <1>6
  <2>2. SplitDefault(s) = [head |-> s, tail |-> None]
    BY <1>3, <2>1 DEF Whole
  <2>3. Behind(body, e, 2, Len(body)) = None
    BY <2>1 DEF Behind
  <2>4. SubSeq(s, 1, Len(s)) = s
    BY SubSeqFull
  <2>5. Slice(s, 0, e + 2) = s
    BY <2>1, <2>4 DEF Slice
  <2>. QED
    BY <2>2, <2>3, <2>5
<1>. QED
  BY <1>5, <1>6

\* The scheme is cut off before the body.
LEMMA SchemeCut ==
  ASSUME NEW T, NEW s \in Seq(T), NEW body, IsInner(s, body), NEW e \in Nat, e <= Len(body)
  PROVE  CutAtFirst(Slice(s, 0, e + 2), Colon) = [head |-> <<s[1]>>, tail |-> Slice(body, 0, e)]
<1>. DEFINE h == Slice(s, 0, e + 2)
<1>1. /\ body \in Seq(T) /\ Len(s) = Len(body) + 2 /\ Len(body) \in Nat
      /\ \A i, j \in Nat : i <= j /\ j <= Len(body) => Slice(body, i, j) = Slice(s, i + 2, j + 2)
  BY InnerBody
<1>2. e + 2 \in Nat /\ e + 2 <= Len(s) /\ 0 \in Nat /\ 0 <= e + 2 /\ Len(s) \in Nat
  BY <1>1
<1>3. h \in Seq(T) /\ Len(h) = e + 2 /\ \A j \in 1 .. e + 2 : h[j] = s[j]
  <2>1. IsHead(T, h, s, e + 2)
    BY <1>2, HeadSlice
  <2>. QED
    BY <2>1 DEF IsHead
<1>4. Slice(h, 2, e + 2) = Slice(body, 0, e)
  <2>1. 2 \in Nat /\ 2 <= e + 2 /\ e + 2 <= e + 2 - 0 /\ 0 + 2 = 2 /\ 0 + (e + 2) = e + 2 /\ 0 <= e
    BY <1>2
  <2>2. Slice(Slice(s, 0, e + 2), 2, e + 2) = Slice(s, 0 + 2, 0 + (e + 2))
    BY <1>2, <2>1, SliceOfSlice
  <2>3. Slice(body, 0, e) = Slice(s, 0 + 2, e + 2)
    BY <1>1, <1>2, <2>1
  <2>. QED
    BY <2>1, <2>2, <2>3
<1>. HIDE DEF h
<1>5. 1 \in 1 .. e + 2 /\ 2 \in 1 .. e + 2 /\ h[1] = s[1] /\ h[2] = Colon /\ h[1] # Colon /\ 2 <= Len(s)
  <2>1. 1 \in 1 .. e + 2 /\ 2 \in 1 .. e + 2
    OBVIOUS
  <2>2. s[1] # Colon /\ s[2] = Colon
    BY ReadMarks DEF IsInner
  <2>. QED
    BY <1>2, <1>3, <2>1, <2>2
<1>6. PICK i \in 1 .. Len(h) : /\ h[i] = Colon /\ \A j \in 1 .. i - 1 : h[j] # Colon
                               /\ IsCutAt(h, Colon, i)
  BY <1>3, <1>5, FirstCut
<1>7. i = 2
  <2>1. i # 1
    BY <1>5, <1>6
  <2>2. ~(i > 2)
    BY <1>5, <1>6
  <2>. QED
    BY <1>6, <2>1, <2>2
<1>8. CutAtFirst(h, Colon) = [head |-> SubSeq(h, 1, 1), tail |-> SubSeq(h, 3, Len(h))]
  BY <1>6, <1>7 DEF IsCutAt
<1>9. SubSeq(h, 1, 1) = <<s[1]>>
  <2>. DEFINE u == SubSeq(h, 1, 1)
  <2>1. u \in Seq(T) /\ Len(u) = 1 /\ u[1] = h[1]
    BY <1>3
  <2>. HIDE DEF u
  <2>2. u = <<s[1]>>
    BY <1>5, <2>1
  <2>. QED
    BY <2>2 DEF u
<1>10. SubSeq(h, 3, Len(h)) = Slice(body, 0, e)
  <2>1. Slice(h, 2, e + 2) = SubSeq(h, 3, Len(h))
    BY <1>3 DEF Slice
  <2>. QED
    BY <1>4, <2>1
<1>. QED
  BY <1>8, <1>9, <1>10, Zenon DEF h

\* A single separator at i + 1, or none and i is the end.
LEMMA SingleCut ==
  ASSUME NEW T, NEW s \in Seq(T), NEW i \in Nat, NEW j \in Nat, i <= j, j <= Len(s), NEW token,
         FirstSingle(Slice(s, 0, j), token) = IF i < j THEN i + 1 ELSE 0
  PROVE  SplitSingle(Slice(s, 0, j), token) = [head |-> Slice(s, 0, i), tail |-> Behind(s, i, 1, j)]
<1>. DEFINE h == Slice(s, 0, j)
<1>0. Len(s) \in Nat /\ 0 \in Nat /\ 0 <= j /\ 0 <= i /\ i <= Len(s)
  OBVIOUS
<1>1. h \in Seq(T) /\ Len(h) = j
  <2>1. IsHead(T, h, s, j)
    BY <1>0, HeadSlice
  <2>. QED
    BY <2>1 DEF IsHead
<1>2. \A k, l \in Nat : k <= l /\ l <= j => Slice(h, k, l) = Slice(s, k, l)
  <2>. SUFFICES ASSUME NEW k \in Nat, NEW l \in Nat, k <= l, l <= j
                PROVE  Slice(h, k, l) = Slice(s, k, l)
    OBVIOUS
  <2>1. 0 + k = k /\ 0 + l = l /\ l <= j - 0
    OBVIOUS
  <2>2. Slice(Slice(s, 0, j), k, l) = Slice(s, 0 + k, 0 + l)
    BY <1>0, <2>1, SliceOfSlice
  <2>. QED
    BY <2>1, <2>2
<1>. HIDE DEF h
<1>3. FirstSingle(h, token) = IF i < j THEN i + 1 ELSE 0
  BY DEF h
<1>4. CASE i < j
  <2>1. i + 1 # 0 /\ i + 1 - 1 = i /\ 0 + 1 = 1 /\ i + 1 <= j /\ i + 1 \in Nat /\ i # j /\ j \in Nat
    BY <1>4
  <2>2. SplitSingle(h, token) = Cut(h, i + 1, 1)
    BY <1>3, <1>4, <2>1 DEF SplitSingle
  <2>3. Cut(h, i + 1, 1) = [head |-> Slice(h, 0, i), tail |-> Slice(h, i + 1, j)]
    BY <1>1, <2>1 DEF Cut, Slice
  <2>4. Slice(h, 0, i) = Slice(s, 0, i) /\ Slice(h, i + 1, j) = Slice(s, i + 1, j)
    BY <1>0, <1>2, <1>4, <2>1
  <2>5. Behind(s, i, 1, j) = Slice(s, i + 1, j)
    BY <2>1 DEF Behind
  <2>. QED
    BY <2>2, <2>3, <2>4, <2>5 DEF h
<1>5. CASE ~(i < j)
  <2>1. i = j
    BY <1>5
  <2>2. SplitSingle(h, token) = [head |-> h, tail |-> None]
    BY <1>3, <1>5, Zenon DEF SplitSingle, Whole
  <2>3. Behind(s, i, 1, j) = None
    BY <2>1 DEF Behind
  <2>. QED
    BY <2>1, <2>2, <2>3 DEF h
<1>. QED
  BY <1>4, <1>5

\* The path the parser gives a reading.
WrittenPath(r) ==
  r.path \o (IF r.query = None THEN <<>> ELSE Cons(Quest, DecodeQuery(r.query)))
  \o (IF r.field = None THEN <<>> ELSE Cons(Hash, ReplaceEach(r.field, <<Hash, Hash>>, <<Hash>>)))

\* The parser finds the reading that ends at the first default.
LEMMA ParsedAs ==
  ASSUME NEW T, None \notin Seq(T), NEW s \in Seq(T), NEW body, IsInner(s, body),
         ~BeginsDashed(body),
         NEW a \in Nat, NEW b \in Nat, NEW e \in Nat, Fits(body, a, b, e), IsFirstDefault(body, e)
  PROVE  /\ ParseSecretRef(s).ok
         /\ ParseSecretRef(s).path = WrittenPath(ReadingOf(body, a, b, e))
         /\ ParseSecretRef(s).default = ReadingOf(body, a, b, e).default
<1>. DEFINE withDefault == SplitDefault(s)
            withScheme == CutAtFirst(withDefault.head, Colon)
            withField == SplitSingle(withScheme.tail, Hash)
            withQuery == SplitSingle(withField.head, Quest)
            r == ReadingOf(body, a, b, e)
<1>1. body \in Seq(T) /\ Len(body) \in Nat
  BY InnerBody
<1>2. a <= b /\ b <= e /\ e <= Len(body)
  BY DEF Fits
<1>3. Shape(body, a, b, e)
  BY <1>1, FitsShape
<1>4. withDefault.head = Slice(s, 0, e + 2) /\ withDefault.tail = r.default
  <2>1. withDefault = [head |-> Slice(s, 0, e + 2), tail |-> Behind(body, e, 2, Len(body))]
    BY InnerSplit
  <2>2. r.default = Behind(body, e, 2, Len(body))
    BY DEF ReadingOf
  <2>. HIDE DEF withDefault, r
  <2>. QED
    BY <2>1, <2>2
<1>. HIDE DEF withDefault
<1>5. withScheme.head = <<s[1]>> /\ withScheme.tail = Slice(body, 0, e)
  <2>1. CutAtFirst(Slice(s, 0, e + 2), Colon) = [head |-> <<s[1]>>, tail |-> Slice(body, 0, e)]
    BY <1>2, SchemeCut
  <2>. QED
    BY <1>4, <2>1
<1>. HIDE DEF withScheme
<1>6. withField.head = Slice(body, 0, b) /\ withField.tail = r.field
  <2>1. FirstSingle(Slice(body, 0, e), Hash) = IF b < e THEN b + 1 ELSE 0
    BY <1>1, <1>3, FieldFound
  <2>2. SplitSingle(Slice(body, 0, e), Hash) = [head |-> Slice(body, 0, b), tail |-> Behind(body, b, 1, e)]
    BY <1>1, <1>2, <2>1, SingleCut
  <2>3. r.field = Behind(body, b, 1, e)
    BY DEF ReadingOf
  <2>. HIDE DEF r
  <2>. QED
    BY <1>5, <2>2, <2>3
<1>. HIDE DEF withField
<1>7. withQuery.head = Slice(body, 0, a) /\ withQuery.tail = r.query
  <2>1. FirstSingle(Slice(body, 0, b), Quest) = IF a < b THEN a + 1 ELSE 0
    BY <1>1, <1>3, QueryFound
  <2>2. b <= Len(body)
    BY <1>1, <1>2
  <2>3. SplitSingle(Slice(body, 0, b), Quest) = [head |-> Slice(body, 0, a), tail |-> Behind(body, a, 1, b)]
    BY <1>1, <1>2, <2>1, <2>2, SingleCut
  <2>4. r.query = Behind(body, a, 1, b)
    BY DEF ReadingOf
  <2>. HIDE DEF r
  <2>. QED
    BY <1>6, <2>3, <2>4
<1>. HIDE DEF withQuery
<1>8. withScheme.tail # None
  <2>1. IsHead(T, Slice(body, 0, e), body, e)
    BY <1>1, <1>2, HeadSlice
  <2>. QED
    BY <1>5, <2>1 DEF IsHead
<1>9. IsScheme(withScheme.head)
  <2>1. s[1] \in Lower
    BY DEF IsInner
  <2>. DEFINE x == s[1]
              u == <<x>>
  <2>2. u # <<>> /\ Range(u) = {x}
    BY DEF Range
  <2>3. IsScheme(u)
    <3>. HIDE DEF u
    <3>. QED
      BY <2>1, <2>2 DEF IsScheme
  <2>. QED
    BY <1>5, <2>3
<1>10. withQuery.tail # None => IsQuery(withQuery.tail)
  <2>. SUFFICES ASSUME withQuery.tail # None PROVE IsQuery(withQuery.tail)
    OBVIOUS
  <2>1. a # b /\ withQuery.tail = Slice(body, a + 1, b)
    BY <1>7 DEF ReadingOf, Behind
  <2>2. a < b /\ a + 1 \in Nat /\ a + 1 <= b /\ b <= Len(body)
    BY <1>1, <1>2, <2>1
  <2>3. IsSlice(T, Slice(body, a + 1, b), body, a + 1, b)
    BY <1>1, <2>2, SliceFacts
  <2>4. Slice(body, a + 1, b) \in Seq(T) /\ LegalQuery(Slice(body, a + 1, b))
    BY <2>2, <2>3 DEF IsSlice, Fits
  <2>. QED
    BY <2>1, <2>4, LegalQueryFacts
<1>11. ParseSecretRef(s) =
         IF \/ withScheme.tail = None
            \/ ~IsScheme(withScheme.head)
            \/ withQuery.tail # None /\ ~IsQuery(withQuery.tail)
         THEN Failed
         ELSE [ok |-> TRUE,
               scheme |-> withScheme.head,
               path |-> Unescaped(withQuery.head)
                        \o (IF withQuery.tail = None THEN <<>>
                            ELSE Cons(Quest, DecodeQuery(withQuery.tail)))
                        \o (IF withField.tail = None THEN <<>>
                            ELSE Cons(Hash, ReplaceEach(withField.tail, <<Hash, Hash>>, <<Hash>>))),
               default |-> withDefault.tail]
  BY Zenon DEF ParseSecretRef, withDefault, withScheme, withField, withQuery, Cons, Colon, Hash, Quest
<1>. DEFINE path == Unescaped(withQuery.head)
                    \o (IF withQuery.tail = None THEN <<>>
                        ELSE Cons(Quest, DecodeQuery(withQuery.tail)))
                    \o (IF withField.tail = None THEN <<>>
                        ELSE Cons(Hash, ReplaceEach(withField.tail, <<Hash, Hash>>, <<Hash>>)))
<1>12. ParseSecretRef(s) = [ok |-> TRUE, scheme |-> withScheme.head, path |-> path,
                            default |-> withDefault.tail]
  BY <1>8, <1>9, <1>10, <1>11, Zenon
<1>13. r.path = Unescaped(Slice(body, 0, a))
  BY DEF ReadingOf
<1>. HIDE DEF r
<1>14. path = WrittenPath(r)
  BY <1>6, <1>7, <1>13, Zenon DEF WrittenPath
<1>. HIDE DEF path
<1>. QED
  BY <1>4, <1>12, <1>14 DEF r

\* A text cut in two at one place.
LEMMA JoinsOnce ==
  ASSUME NEW T, NEW a \in Seq(T), NEW b \in Seq(T), NEW c \in Seq(T), NEW d \in Seq(T),
         NEW u, Joins(u, a, b), Joins(u, c, d), Len(b) = Len(d)
  PROVE  a = c /\ b = d
<1>1. /\ u \in Seq(T) /\ Len(u) = Len(a) + Len(b) /\ Len(u) = Len(c) + Len(d)
      /\ \A i \in 1 .. Len(a) : u[i] = a[i]
      /\ \A i \in 1 .. Len(b) : u[Len(a) + i] = b[i]
      /\ \A i \in 1 .. Len(c) : u[i] = c[i]
      /\ \A i \in 1 .. Len(d) : u[Len(c) + i] = d[i]
  <2>1. ASSUME NEW x \in Seq(T), NEW y \in Seq(T), Joins(u, x, y)
        PROVE  /\ u \in Seq(T) /\ Len(u) = Len(x) + Len(y)
               /\ \A i \in 1 .. Len(x) : u[i] = x[i]
               /\ \A i \in 1 .. Len(y) : u[Len(x) + i] = y[i]
    <3>1. u = x \o y
      BY <2>1 DEF Joins
    <3>2. x \o y \in Seq(T) /\ Len(x \o y) = Len(x) + Len(y)
          /\ \A i \in 1 .. Len(x) + Len(y) :
                (x \o y)[i] = IF i <= Len(x) THEN x[i] ELSE y[i - Len(x)]
      BY ConcatProperties
    <3>3. \A i \in 1 .. Len(x) : i \in 1 .. Len(x) + Len(y) /\ i <= Len(x)
      OBVIOUS
    <3>4. \A i \in 1 .. Len(y) : /\ Len(x) + i \in 1 .. Len(x) + Len(y) /\ ~(Len(x) + i <= Len(x))
                                 /\ Len(x) + i - Len(x) = i
      OBVIOUS
    <3>. QED
      BY <3>1, <3>2, <3>3, <3>4
  <2>2. Joins(u, a, b) /\ Joins(u, c, d)
    OBVIOUS
  <2>. QED
    BY <2>1, <2>2
<1>2. Len(a) = Len(c) /\ Len(a) \in Nat /\ Len(b) \in Nat
  BY <1>1
<1>3. a = c
  BY <1>1, <1>2, SeqEqual
<1>4. b = d
  BY <1>1, <1>2, SeqEqual
<1>. QED
  BY <1>3, <1>4

\* Pieces of the same lengths in a row are told apart.
LEMMA FlattenApart ==
  ASSUME NEW T, NEW p \in Seq(Seq(T)), NEW q \in Seq(Seq(T)), Len(p) = Len(q),
         \A i \in 1 .. Len(p) : Len(p[i]) = Len(q[i]),
         FlattenSeq(p) = FlattenSeq(q)
  PROVE  \A i \in 1 .. Len(p) : p[i] = q[i]
<1>. SUFFICES ASSUME NEW k0 \in 1 .. Len(p) PROVE p[k0] = q[k0]
  OBVIOUS
<1>1. Len(p) # 0 /\ Len(q) # 0 /\ Len(p) \in Nat
  OBVIOUS
<1>2. PICK v : IsFlattening(T, p, v)
  BY <1>1, FlattenRuns
<1>3. PICK w : IsFlattening(T, q, w)
  BY <1>1, FlattenRuns
<1>. DEFINE n == Len(p)
            Same(i) == \A k \in 1 .. i : p[k] = q[k]
            S == {i \in Nat : i \in 1 .. n => Len(v[i]) = Len(w[i]) /\ (v[i] = w[i] => Same(i))}
<1>4. 0 \in S
  OBVIOUS
<1>5. ASSUME NEW i \in Nat, i \in S PROVE i + 1 \in S
  <2>. SUFFICES ASSUME i + 1 \in 1 .. n
                PROVE  Len(v[i + 1]) = Len(w[i + 1]) /\ (v[i + 1] = w[i + 1] => Same(i + 1))
    OBVIOUS
  <2>. DEFINE j == i + 1
  <2>1. /\ v[j] \in Seq(T) /\ v[j] = IF j = 1 THEN p[j] ELSE v[j - 1] \o p[j]
        /\ w[j] \in Seq(T) /\ w[j] = IF j = 1 THEN q[j] ELSE w[j - 1] \o q[j]
    BY <1>2, <1>3 DEF IsFlattening
  <2>2. p[j] \in Seq(T) /\ q[j] \in Seq(T) /\ Len(p[j]) = Len(q[j])
    OBVIOUS
  <2>3. CASE i = 0
    <3>1. v[1] = p[1] /\ w[1] = q[1] /\ 1 \in 1 .. n
      BY <2>1, <2>3
    <3>2. Len(v[1]) = Len(w[1])
      BY <3>1
    <3>3. i + 1 = 1 /\ \A k \in 1 .. i + 1 : k = 1
      BY <2>3
    <3>. QED
      BY <3>1, <3>2, <3>3
  <2>4. CASE i # 0
    <3>1. i \in 1 .. n /\ j # 1 /\ j - 1 = i
      BY <2>4
    <3>2. v[i] \in Seq(T) /\ w[i] \in Seq(T)
      BY <1>2, <1>3, <3>1 DEF IsFlattening
    <3>3. Len(v[i]) = Len(w[i]) /\ (v[i] = w[i] => Same(i))
      BY <1>5, <3>1
    <3>4. Joins(v[j], v[i], p[j]) /\ Joins(w[j], w[i], q[j])
      <4>1. v[j] = v[i] \o p[j] /\ w[j] = w[i] \o q[j]
        BY <2>1, <3>1
      <4>. HIDE DEF j
      <4>. QED
        BY <4>1 DEF Joins
    <3>5. Len(v[j]) = Len(w[j])
      <4>1. v[j] = v[i] \o p[j] /\ w[j] = w[i] \o q[j]
        BY <3>4 DEF Joins
      <4>2. Len(v[i] \o p[j]) = Len(v[i]) + Len(p[j]) /\ Len(w[i] \o q[j]) = Len(w[i]) + Len(q[j])
        BY <2>2, <3>2, ConcatProperties
      <4>. HIDE DEF j
      <4>. QED
        BY <2>2, <3>3, <4>1, <4>2
    <3>6. ASSUME v[j] = w[j] PROVE Same(j)
      <4>. DEFINE u == v[j]
                  a == v[i]
                  b == p[j]
                  c == w[i]
                  d == q[j]
      <4>1. Joins(u, a, b) /\ Joins(u, c, d)
        BY <3>4, <3>6
      <4>a. a \in Seq(T) /\ b \in Seq(T) /\ c \in Seq(T) /\ d \in Seq(T) /\ Len(b) = Len(d)
        BY <2>2, <3>2
      <4>. HIDE DEF u, j, a, b, c, d
      <4>b. a = c /\ b = d
        BY <4>1, <4>a, JoinsOnce
      <4>2. v[i] = w[i] /\ p[j] = q[j]
        BY <4>b DEF a, b, c, d
      <4>3. Same(i)
        BY <3>3, <4>2
      <4>4. \A k \in 1 .. j : k \in 1 .. i \/ k = j
        BY DEF j
      <4>. QED
        BY <4>2, <4>3, <4>4
    <3>. HIDE DEF Same
    <3>. QED
      BY <3>5, <3>6
  <2>. QED
    BY <2>3, <2>4
<1>6. Nat \subseteq S
  <2>. HIDE DEF S
  <2>. QED
    BY <1>4, <1>5, NatSetInduction
<1>7. n \in 1 .. n /\ v[n] = w[n]
  <2>1. FlattenSeq(p) = v[n]
    BY <1>2 DEF IsFlattening
  <2>2. FlattenSeq(q) = w[Len(q)]
    BY <1>3 DEF IsFlattening
  <2>3. n \in 1 .. n
    BY <1>1
  <2>. HIDE DEF n
  <2>4. Len(q) = n
    BY DEF n
  <2>. QED
    BY <2>1, <2>2, <2>3, <2>4, Zenon
<1>8. Same(n)
  <2>1. n \in S
    <3>. HIDE DEF S
    <3>. QED
      BY <1>1, <1>6
  <2>. QED
    BY <1>7, <2>1
<1>. QED
  BY <1>8

\* Decoding a query as the code does, and leaving a + alone, come to one text
\* only if no value has a +.
LEMMA DecodedApart ==
  ASSUME NEW q \in Seq(Char),
         \A i \in 1 .. Len(q) : q[i] = Plus => InValue(q, i)
  PROVE  DecodedBy(Escapes, q) = DecodedBy(PercentOnly, q) <=> ~Contains(q, Plus)
<1>. DEFINE Hit(i) == InValue(q, i) /\ q[i] \in DOMAIN Escapes
            E(i) == IF Hit(i) THEN Escapes[q[i]] ELSE <<q[i]>>
            F(i) == IF InValue(q, i) /\ q[i] \in DOMAIN PercentOnly THEN PercentOnly[q[i]] ELSE <<q[i]>>
            written == [i \in DOMAIN q |-> E(i)]
            meant == [i \in DOMAIN q |-> F(i)]
<1>0. DOMAIN q = 1 .. Len(q) /\ Len(q) \in Nat /\ \A i \in 1 .. Len(q) : q[i] \in Char
  OBVIOUS
<1>1. DOMAIN PercentOnly = DOMAIN Escapes \ {Plus}
      /\ \A t \in DOMAIN PercentOnly : PercentOnly[t] = Escapes[t]
  <2>1. PercentOnly = [t \in DOMAIN Escapes \ {Plus} |-> Escapes[t]]
    BY Zenon DEF PercentOnly, Plus
  <2>. QED
    BY <2>1
<1>2. Plus \in DOMAIN Escapes /\ Len(Escapes[Plus]) = 1 /\ Escapes[Plus] # <<Plus>>
  <2>1. Plus \in DOMAIN Escapes /\ Escapes[Plus] = <<" ">>
    BY GrammarAssumption, Zenon DEF Plus
  <2>. DEFINE blank == " "
  <2>2. blank # Plus /\ Escapes[Plus] = <<blank>>
    BY <2>1, Zenon DEF Plus
  <2>. HIDE DEF blank
  <2>3. Len(<<blank>>) = 1 /\ <<blank>>[1] = blank /\ <<Plus>>[1] = Plus
    OBVIOUS
  <2>4. <<blank>> # <<Plus>>
    BY <2>2, <2>3, Zenon
  <2>. QED
    BY <2>1, <2>2, <2>3, <2>4, Zenon
<1>3. ASSUME NEW i \in 1 .. Len(q), q[i] # Plus PROVE F(i) = E(i)
  <2>1. q[i] \in DOMAIN PercentOnly <=> q[i] \in DOMAIN Escapes
    BY <1>1, <1>3
  <2>2. q[i] \in DOMAIN PercentOnly => PercentOnly[q[i]] = Escapes[q[i]]
    BY <1>1
  <2>. QED
    BY <2>1, <2>2, Zenon
<1>4. ASSUME NEW i \in 1 .. Len(q), q[i] = Plus
      PROVE  E(i) = Escapes[Plus] /\ F(i) = <<Plus>>
  <2>1. Hit(i)
    BY <1>2, <1>4
  <2>2. ~(q[i] \in DOMAIN PercentOnly)
    BY <1>1, <1>4
  <2>. QED
    BY <1>4, <2>1, <2>2, Zenon
<1>5. ASSUME NEW i \in 1 .. Len(q) PROVE E(i) \in Seq(Char) /\ F(i) \in Seq(Char)
  <2>1. <<q[i]>> \in Seq(Char)
    BY <1>0
  <2>2. (q[i] \in DOMAIN Escapes => Escapes[q[i]] \in Seq(Char))
    BY EscapesAssumption
  <2>3. E(i) \in Seq(Char)
    BY <2>1, <2>2, Zenon
  <2>4. F(i) \in Seq(Char)
    <3>1. CASE q[i] = Plus
      BY <1>4, <2>1, <3>1
    <3>2. CASE q[i] # Plus
      BY <1>3, <2>3, <3>2
    <3>. QED
      BY <3>1, <3>2
  <2>. QED
    BY <2>3, <2>4
<1>. HIDE DEF E, F, Hit
<1>6. /\ written \in Seq(Seq(Char)) /\ meant \in Seq(Seq(Char))
      /\ Len(written) = Len(q) /\ Len(meant) = Len(q)
      /\ \A i \in 1 .. Len(q) : written[i] = E(i) /\ meant[i] = F(i)
  BY <1>0, <1>5
<1>7. DecodedBy(Escapes, q) = FlattenSeq(written) /\ DecodedBy(PercentOnly, q) = FlattenSeq(meant)
  BY Zenon DEF DecodedBy, E, F, Hit
<1>8. Contains(q, Plus) <=> \E i \in 1 .. Len(q) : q[i] = Plus
  BY <1>0 DEF Contains
<1>9. CASE ~Contains(q, Plus)
  <2>1. \A i \in 1 .. Len(q) : E(i) = F(i)
    BY <1>3, <1>8, <1>9
  <2>2. written = meant
    BY <1>0, <2>1
  <2>. HIDE DEF written, meant
  <2>. QED
    BY <1>7, <1>9, <2>2
<1>10. CASE Contains(q, Plus)
  <2>. HIDE DEF written, meant
  <2>1. PICK i \in 1 .. Len(q) : q[i] = Plus
    BY <1>8, <1>10
  <2>2. ASSUME NEW k \in 1 .. Len(written) PROVE Len(written[k]) = Len(meant[k])
    <3>1. k \in 1 .. Len(q)
      BY <1>6
    <3>2. CASE q[k] = Plus
      <4>1. written[k] = Escapes[Plus] /\ meant[k] = <<Plus>>
        BY <1>4, <1>6, <3>1, <3>2
      <4>. QED
        BY <1>2, <4>1
    <3>3. CASE q[k] # Plus
      BY <1>3, <1>6, <3>1, <3>3
    <3>. QED
      BY <3>2, <3>3
  <2>3. written[i] # meant[i]
    BY <1>2, <1>4, <1>6, <2>1
  <2>4. FlattenSeq(written) # FlattenSeq(meant)
    <3>. SUFFICES ASSUME FlattenSeq(written) = FlattenSeq(meant) PROVE FALSE
      OBVIOUS
    <3>1. written \in Seq(Seq(Char)) /\ meant \in Seq(Seq(Char)) /\ Len(written) = Len(meant)
      BY <1>6
    <3>2. \A k \in 1 .. Len(written) : written[k] = meant[k]
      BY <2>2, <3>1, FlattenApart
    <3>3. i \in 1 .. Len(written)
      BY <1>6
    <3>. QED
      BY <2>3, <3>2, <3>3
  <2>. QED
    BY <1>7, <1>10, <2>4
<1>. QED
  BY <1>9, <1>10

-----------------------------------------------------------------------------
(* The reading the parser finds, and the others.                           *)

\* The path the parser makes of a reading is the one that is meant, unless a
\* + of its query is read as a space.
LEMMA WrittenAsMeant ==
  ASSUME NEW r, r.path \in Seq(Char), PartOf(Char, r.query), PartOf(Char, r.field),
         r.query # None => \A i \in 1 .. Len(r.query) : r.query[i] = Plus => InValue(r.query, i)
  PROVE  WrittenPath(r) = CanonicalPath(r) <=> ~HasPlus(r)
<1>. DEFINE p == r.path
            q == r.query
            y == IF r.field = None THEN <<>>
                 ELSE Cons(Hash, ReplaceEach(r.field, <<Hash, Hash>>, <<Hash>>))
            A == DecodedBy(Escapes, q)
            B == DecodedBy(PercentOnly, q)
<1>0. Hash \in Char /\ Quest \in Char /\ None \notin Seq(Char)
  BY SplitMarks, CharAssumption
<1>1. WrittenPath(r) = p \o (IF q = None THEN <<>> ELSE Cons(Quest, A)) \o y
  BY Zenon DEF WrittenPath, DecodeQuery
<1>2. CanonicalPath(r) = p \o (IF q = None THEN <<>> ELSE Cons(Quest, B)) \o y
  BY Zenon DEF CanonicalPath, MeantQuery, Cons, Hash, Quest
<1>3. HasPlus(r) <=> q # None /\ Contains(q, Plus)
  BY Zenon DEF HasPlus, Plus
<1>4. y \in Seq(Char)
  <2>1. CASE r.field = None
    BY <2>1
  <2>2. CASE r.field # None
    <3>. DEFINE c == ReplaceEach(r.field, <<Hash, Hash>>, <<Hash>>)
    <3>1. Replaceable(Char, r.field, <<Hash, Hash>>, <<Hash>>)
      BY <1>0, <2>2 DEF PartOf, Replaceable
    <3>2. c \in Seq(Char)
      BY <3>1, ReplaceEachType
    <3>. HIDE DEF c
    <3>3. Cons(Hash, c) \in Seq(Char)
      BY <1>0, <3>2, ConsLaws
    <3>4. y = Cons(Hash, c)
      BY <2>2, Zenon DEF c
    <3>. QED
      BY <3>3, <3>4
  <2>. QED
    BY <2>1, <2>2
<1>. HIDE DEF y
<1>5. CASE q = None
  BY <1>1, <1>2, <1>3, <1>5, Zenon
<1>6. CASE q # None
  <2>1. q \in Seq(Char) /\ \A i \in 1 .. Len(q) : q[i] = Plus => InValue(q, i)
    BY <1>6 DEF PartOf
  <2>. HIDE DEF q
  <2>2. A = B <=> ~Contains(q, Plus)
    BY <2>1, DecodedApart
  <2>3. A \in Seq(Char)
    BY <2>1, EscapesAssumption, DecodedType
  <2>4. B \in Seq(Char)
    <3>. DEFINE e == PercentOnly
    <3>1. \A t \in DOMAIN e : e[t] \in Seq(Char)
      BY EscapesAssumption DEF PercentOnly
    <3>. HIDE DEF e
    <3>2. DecodedBy(e, q) \in Seq(Char)
      BY <2>1, <3>1, DecodedType
    <3>. QED
      BY <3>2 DEF e
  <2>5. p \in Seq(Char)
    OBVIOUS
  <2>. HIDE DEF A, B, p
  <2>. DEFINE u == Cons(Quest, A)
              v == Cons(Quest, B)
              x == p \o u
              z == p \o v
              w == WrittenPath(r)
  <2>6. WrittenPath(r) = x \o y /\ CanonicalPath(r) = z \o y
    BY <1>1, <1>2, <1>6, Zenon
  <2>7. u \in Seq(Char) /\ v \in Seq(Char)
    BY <1>0, <2>3, <2>4, ConsLaws
  <2>8. IsCons(u, Quest, A) /\ IsCons(v, Quest, B)
    BY DEF IsCons
  <2>. HIDE DEF u, v
  <2>9. x \in Seq(Char) /\ z \in Seq(Char) /\ Len(x) = Len(p) + Len(u) /\ Len(z) = Len(p) + Len(v)
        /\ Joins(x, p, u) /\ Joins(z, p, v)
    BY <2>5, <2>7, ConcatProperties DEF Joins
  <2>. HIDE DEF x, z
  <2>10. ASSUME WrittenPath(r) = CanonicalPath(r) PROVE A = B
    <3>1. Joins(w, x, y) /\ Joins(w, z, y)
      BY <2>6, <2>10, Zenon DEF Joins
    <3>. HIDE DEF w
    <3>2. x = z
      BY <1>4, <2>9, <3>1, JoinsOnce
    <3>3. Len(u) = Len(v) /\ Joins(x, p, u) /\ Joins(x, p, v)
      <4>1. Len(p) \in Nat /\ Len(u) \in Nat /\ Len(v) \in Nat
        BY <2>5, <2>7
      <4>2. Len(p) + Len(u) = Len(p) + Len(v)
        BY <2>9, <3>2
      <4>. QED
        BY <2>9, <3>2, <4>1, <4>2
    <3>4. u = v
      BY <2>5, <2>7, <3>3, JoinsOnce
    <3>5. IsCons(u, Quest, A) /\ IsCons(u, Quest, B)
      BY <2>8, <3>4
    <3>. QED
      BY <1>0, <2>3, <2>4, <3>5, ConsSplits
  <2>11. ASSUME A = B PROVE WrittenPath(r) = CanonicalPath(r)
    BY <1>1, <1>2, <2>11, Zenon
  <2>. QED
    BY <1>3, <1>6, <2>2, <2>10, <2>11 DEF q
<1>. QED
  BY <1>5, <1>6

\* The parts of a reading.
LEMMA ReadingPieces ==
  ASSUME NEW s \in Seq(Char), NEW a \in Nat, NEW b \in Nat, NEW d \in Nat, Fits(s, a, b, d),
         NEW r, r = ReadingOf(s, a, b, d)
  PROVE  /\ r.path \in Seq(Char) /\ PartOf(Char, r.query) /\ PartOf(Char, r.field)
         /\ r.query # None => /\ a < b /\ r.query = Slice(s, a + 1, b)
                              /\ \A i \in 1 .. Len(r.query) : r.query[i] = Plus => InValue(r.query, i)
<1>0. a <= b /\ b <= d /\ d <= Len(s) /\ Len(s) \in Nat
  BY DEF Fits
<1>1. /\ r.path = Unescaped(Slice(s, 0, a)) /\ r.query = Behind(s, a, 1, b)
      /\ r.field = Behind(s, b, 1, d)
  BY DEF ReadingOf
<1>2. r.path \in Seq(Char)
  <2>1. 0 \in Nat /\ 0 <= a /\ a <= Len(s)
    BY <1>0
  <2>2. IsHead(Char, Slice(s, 0, a), s, a)
    BY <2>1, HeadSlice
  <2>3. Slice(s, 0, a) \in Seq(Char)
    BY <2>2 DEF IsHead
  <2>. QED
    BY <1>1, <2>3, UnescapedType
<1>3. PartOf(Char, r.field)
  <2>1. CASE b = d
    BY <1>1, <2>1 DEF Behind, PartOf
  <2>2. CASE b # d
    <3>1. b + 1 \in Nat /\ b + 1 <= d
      BY <1>0, <2>2
    <3>2. IsSlice(Char, Slice(s, b + 1, d), s, b + 1, d)
      BY <1>0, <3>1, SliceFacts
    <3>. QED
      BY <1>1, <2>2, <3>2 DEF IsSlice, Behind, PartOf
  <2>. QED
    BY <2>1, <2>2
<1>4. CASE a = b
  BY <1>1, <1>2, <1>3, <1>4 DEF Behind, PartOf
<1>5. CASE a # b
  <2>1. a + 1 \in Nat /\ a + 1 <= b /\ a < b /\ b <= Len(s)
    BY <1>0, <1>5
  <2>2. IsSlice(Char, Slice(s, a + 1, b), s, a + 1, b)
    BY <1>0, <2>1, SliceFacts
  <2>3. r.query = Slice(s, a + 1, b) /\ r.query \in Seq(Char)
    BY <1>1, <1>5, <2>2 DEF IsSlice, Behind
  <2>4. LegalQuery(r.query)
    BY <2>1, <2>3 DEF Fits
  <2>. DEFINE q == r.query
  <2>5. q \in Seq(Char) /\ LegalQuery(q)
    BY <2>3, <2>4
  <2>. HIDE DEF q
  <2>6. \A i \in 1 .. Len(q) : q[i] = Plus => InValue(q, i)
    BY <2>5, LegalQueryFacts
  <2>. QED
    BY <1>2, <1>3, <2>1, <2>3, <2>6 DEF PartOf, q
<1>. QED
  BY <1>4, <1>5

\* No other reading has the same default.
LEMMA SameReading ==
  ASSUME NEW T, None \notin Seq(T), NEW s \in Seq(T), NEW e \in Nat,
         NEW a \in Nat, NEW b \in Nat, Fits(s, a, b, e),
         NEW a2 \in Nat, NEW b2 \in Nat, NEW d2 \in Nat, Fits(s, a2, b2, d2),
         Behind(s, d2, 2, Len(s)) = Behind(s, e, 2, Len(s))
  PROVE  a2 = a /\ b2 = b /\ d2 = e
<1>1. ASSUME NEW x \in Nat, NEW y \in Nat, NEW d \in Nat, Fits(s, x, y, d)
      PROVE  \/ d = Len(s) /\ Behind(s, d, 2, Len(s)) = None
             \/ /\ d # Len(s) /\ Behind(s, d, 2, Len(s)) # None
                /\ Len(Behind(s, d, 2, Len(s))) = Len(s) - (d + 2)
  <2>0. d <= Len(s) /\ Len(s) \in Nat
    BY <1>1 DEF Fits
  <2>1. CASE d = Len(s)
    BY <2>1 DEF Behind
  <2>2. CASE d # Len(s)
    <3>. DEFINE n == Len(s)
    <3>1. d + 2 \in Nat /\ d + 2 <= n /\ n \in Nat /\ n <= Len(s)
      <4>1. IsColonDash(s, d + 1)
        BY <1>1, <2>0, <2>2 DEF Fits
      <4>. QED
        BY <2>0, <4>1 DEF IsColonDash
    <3>. HIDE DEF n
    <3>2. IsSlice(T, Slice(s, d + 2, n), s, d + 2, n)
      BY <3>1, SliceFacts
    <3>3. Slice(s, d + 2, n) # None /\ Len(Slice(s, d + 2, n)) = n - (d + 2)
      BY <3>2 DEF IsSlice
    <3>4. Behind(s, d, 2, n) = Slice(s, d + 2, n)
      BY <2>2 DEF Behind, n
    <3>. QED
      BY <2>2, <3>3, <3>4 DEF n
  <2>. QED
    BY <2>1, <2>2
<1>2. d2 = e
  <2>1. e <= Len(s) /\ d2 <= Len(s) /\ Len(s) \in Nat
    BY DEF Fits
  <2>. DEFINE f(d) == Behind(s, d, 2, Len(s))
  <2>2. \/ e = Len(s) /\ f(e) = None
        \/ e # Len(s) /\ f(e) # None /\ Len(f(e)) = Len(s) - (e + 2)
    BY <1>1
  <2>3. \/ d2 = Len(s) /\ f(d2) = None
        \/ d2 # Len(s) /\ f(d2) # None /\ Len(f(d2)) = Len(s) - (d2 + 2)
    BY <1>1
  <2>4. f(d2) = f(e)
    OBVIOUS
  <2>. HIDE DEF f
  <2>. QED
    BY <2>1, <2>2, <2>3, <2>4
<1>3. Shape(s, a, b, e)
  BY FitsShape
<1>4. Fits(s, a2, b2, e)
  BY <1>2
<1>5. Shape(s, a2, b2, e)
  BY <1>4, FitsShape
<1>6. a2 = a /\ b2 = b
  BY <1>3, <1>5, ShapeUnique
<1>. QED
  BY <1>2, <1>6

\* A + of a query is there in every longer query.
LEMMA PlusKept ==
  ASSUME NEW s \in Seq(Char), NEW a \in Nat, NEW b \in Nat, NEW d \in Nat, Fits(s, a, b, d),
         NEW c \in Nat, NEW e \in Nat, Fits(s, a, c, e), c <= b,
         HasPlus(ReadingOf(s, a, c, e))
  PROVE  HasPlus(ReadingOf(s, a, b, d))
<1>. DEFINE h == ReadingOf(s, a, c, e)
            r == ReadingOf(s, a, b, d)
<1>a. b <= d /\ d <= Len(s)
  BY Zenon DEF Fits
<1>b. None \notin Seq(Char)
  BY CharAssumption
<1>c. Len(s) \in Nat
  OBVIOUS
<1>d. b <= Len(s)
  BY <1>a, <1>c
<1>0. b <= Len(s) /\ Len(s) \in Nat /\ None \notin Seq(Char)
  BY <1>b, <1>c, <1>d
<1>1. h.query # None /\ Contains(h.query, Plus)
  BY Zenon DEF HasPlus, Plus
<1>2. a < c /\ h.query = Slice(s, a + 1, c)
  <2>. HIDE DEF h
  <2>1. h = ReadingOf(s, a, c, e) /\ Fits(s, a, c, e)
    BY DEF h
  <2>2. h.query # None => a < c /\ h.query = Slice(s, a + 1, c)
    BY <2>1, ReadingPieces
  <2>. QED
    BY <1>1, <2>2
<1>3. a + 1 \in Nat /\ a + 1 <= c /\ a + 1 <= b /\ c <= Len(s) /\ a # b
  BY <1>0, <1>2
<1>4. IsSlice(Char, Slice(s, a + 1, c), s, a + 1, c)
  BY <1>3, SliceFacts
<1>5. IsSlice(Char, Slice(s, a + 1, b), s, a + 1, b)
  BY <1>0, <1>3, SliceFacts
<1>6. r.query = Slice(s, a + 1, b)
  BY <1>3 DEF ReadingOf, Behind
<1>. DEFINE u == Slice(s, a + 1, c)
            v == Slice(s, a + 1, b)
<1>7. /\ u \in Seq(Char) /\ Len(u) = c - (a + 1) /\ \A k \in 1 .. c - (a + 1) : u[k] = s[a + 1 + k]
      /\ v \in Seq(Char) /\ Len(v) = b - (a + 1) /\ \A k \in 1 .. b - (a + 1) : v[k] = s[a + 1 + k]
  BY <1>4, <1>5 DEF IsSlice
<1>8. Contains(u, Plus)
  BY <1>1, <1>2
<1>. HIDE DEF u, v, r, h
<1>9. PICK k \in 1 .. Len(u) : u[k] = Plus
  BY <1>7, <1>8 DEF Contains
<1>10. k \in 1 .. Len(v) /\ v[k] = Plus
  <2>1. k \in 1 .. c - (a + 1) /\ k \in 1 .. b - (a + 1)
    BY <1>3, <1>7, <1>9
  <2>. QED
    BY <1>7, <1>9, <2>1
<1>11. Contains(v, Plus)
  BY <1>7, <1>10 DEF Contains
<1>12. r.query = v /\ v # None
  <2>1. r.query = v
    BY <1>6 DEF v
  <2>. QED
    BY <1>0, <1>7, <2>1
<1>13. HasPlus(r)
  BY <1>11, <1>12, Zenon DEF HasPlus, Plus
<1>. QED
  BY <1>13 DEF r

\* Of the readings, the parser's is the one that ends at the first default.
LEMMA ReadAgreed ==
  ASSUME NEW s \in Seq(Char), NEW body, IsInner(s, body), ~BeginsDashed(body), Readings(body) # {}
  PROVE  (\E r \in Readings(body) : Agrees(ParseSecretRef(s), r))
         <=> ~(\A r \in Readings(body) : HasPlus(r))
<1>0. None \notin Seq(Char)
  BY CharAssumption
<1>1. body \in Seq(Char) /\ Len(body) \in Nat
  BY InnerBody
<1>. DEFINE n == Len(body)
            ref == ParseSecretRef(s)
<1>2. \A r : r \in Readings(body)
             <=> \E a, b, d \in 0 .. n : Fits(body, a, b, d) /\ r = ReadingOf(body, a, b, d)
  BY <1>1, ReadingsForm
<1>3. PICK e \in 0 .. n : IsFirstDefault(body, e)
  BY <1>1, FirstDefault
<1>4. PICK a1 \in 0 .. n, b1 \in 0 .. n, d1 \in 0 .. n : Fits(body, a1, b1, d1)
  BY <1>2
<1>. DEFINE c == IF b1 < e THEN b1 ELSE e
            r0 == ReadingOf(body, a1, c, e)
<1>5. Fits(body, a1, c, e) /\ c \in 0 .. n /\ c \in Nat /\ a1 \in Nat /\ e \in Nat
  <2>1. a1 \in Nat /\ b1 \in Nat /\ d1 \in Nat /\ e \in Nat
    OBVIOUS
  <2>2. Fits(body, a1, c, e)
    BY <1>1, <1>3, <1>4, <2>1, CutAtDefault
  <2>. QED
    BY <2>1, <2>2
<1>. HIDE DEF c
<1>6. ref.ok /\ ref.path = WrittenPath(r0) /\ ref.default = r0.default
  BY <1>0, <1>3, <1>5, ParsedAs
<1>. HIDE DEF ref
<1>7. r0 \in Readings(body)
  BY <1>2, <1>5
<1>8. WrittenPath(r0) = CanonicalPath(r0) <=> ~HasPlus(r0)
  <2>1. r0 = ReadingOf(body, a1, c, e)
    OBVIOUS
  <2>. HIDE DEF r0
  <2>2. /\ r0.path \in Seq(Char) /\ PartOf(Char, r0.query) /\ PartOf(Char, r0.field)
        /\ r0.query # None => \A i \in 1 .. Len(r0.query) : r0.query[i] = Plus => InValue(r0.query, i)
    BY <1>1, <1>5, <2>1, ReadingPieces
  <2>. QED
    BY <2>2, WrittenAsMeant
<1>. DEFINE def(r) == r.default
<1>9. def(r0) = Behind(body, e, 2, n)
  BY DEF ReadingOf
<1>10. ASSUME NEW r \in Readings(body), Agrees(ref, r) PROVE ~HasPlus(r0)
  <2>1. PICK a2 \in 0 .. n, b2 \in 0 .. n, d2 \in 0 .. n :
           Fits(body, a2, b2, d2) /\ r = ReadingOf(body, a2, b2, d2)
    BY <1>2
  <2>2. ref.path = CanonicalPath(r) /\ ref.default = r.default
    BY <1>10, Zenon DEF Agrees
  <2>3. r.default = Behind(body, d2, 2, n)
    BY <2>1 DEF ReadingOf
  <2>. HIDE DEF r0
  <2>4. Behind(body, d2, 2, n) = Behind(body, e, 2, n)
    BY <1>6, <1>9, <2>2, <2>3
  <2>5. a2 \in Nat /\ b2 \in Nat /\ d2 \in Nat
    OBVIOUS
  <2>6. a2 = a1 /\ b2 = c /\ d2 = e
    BY <1>0, <1>1, <1>5, <2>1, <2>4, <2>5, SameReading
  <2>7. r = r0
    BY <2>1, <2>6 DEF r0
  <2>. QED
    BY <1>6, <1>8, <2>2, <2>7
<1>11. ASSUME ~HasPlus(r0) PROVE Agrees(ref, r0)
  <2>. HIDE DEF r0
  <2>. QED
    BY <1>6, <1>8, <1>11, Zenon DEF Agrees
<1>12. ASSUME HasPlus(r0), NEW r \in Readings(body) PROVE HasPlus(r)
  <2>1. PICK a2 \in 0 .. n, b2 \in 0 .. n, d2 \in 0 .. n :
           Fits(body, a2, b2, d2) /\ r = ReadingOf(body, a2, b2, d2)
    BY <1>2
  <2>. DEFINE c2 == IF b2 < e THEN b2 ELSE e
  <2>2. a2 \in Nat /\ b2 \in Nat /\ d2 \in Nat /\ c2 \in Nat /\ c2 <= b2
    <3>1. a2 \in Nat /\ b2 \in Nat /\ d2 \in Nat /\ e \in Nat
      OBVIOUS
    <3>. QED
      BY <3>1
  <2>3. Fits(body, a2, c2, e)
    BY <1>1, <1>3, <1>5, <2>1, <2>2, CutAtDefault
  <2>. HIDE DEF c2
  <2>4. a2 = a1 /\ c2 = c
    <3>1. Behind(body, e, 2, Len(body)) = Behind(body, e, 2, Len(body))
      OBVIOUS
    <3>. QED
      BY <1>0, <1>1, <1>5, <2>2, <2>3, <3>1, SameReading
  <2>5. HasPlus(ReadingOf(body, a2, c2, e))
    BY <1>12, <2>4
  <2>6. HasPlus(ReadingOf(body, a2, b2, d2))
    BY <1>1, <1>5, <2>1, <2>2, <2>3, <2>5, PlusKept
  <2>. QED
    BY <2>1, <2>6
<1>. HIDE DEF r0
<1>. QED
  BY <1>7, <1>10, <1>11, <1>12 DEF ref

-----------------------------------------------------------------------------
(* The bodies that are misread: those that begin with - or with :-.        *)

\* strings.ReplaceAll leaves something of a text if the new text is not empty.
LEMMA ReplaceKeepsSome ==
  ASSUME NEW T, NEW s, NEW pattern, NEW new, Replaceable(T, s, pattern, new),
         Len(s) >= 1, Len(new) >= 1
  PROVE  Len(ReplaceEach(s, pattern, new)) >= 1
<1>0. s \in Seq(T) /\ Len(pattern) \in Nat \ {0} /\ new \in Seq(T)
  BY DEF Replaceable
<1>1. PICK f : Replacing(s, pattern, new, f) /\ ReplaceEach(s, pattern, new) = f[1]
  BY ReplaceEachScans
<1>2. /\ 1 \in 1 .. Len(s) + Len(pattern) /\ ~(1 > Len(s))
      /\ 1 + Len(pattern) \in 1 .. Len(s) + Len(pattern) /\ 2 \in 1 .. Len(s) + Len(pattern)
  <2>1. Len(s) \in Nat
    BY <1>0
  <2>. QED
    BY <1>0, <2>1
<1>3. f[1] = IF HasAt(s, 1, pattern) THEN new \o f[1 + Len(pattern)] ELSE <<s[1]>> \o f[1 + 1]
  <2>1. f[1] = Replaces(s, pattern, new, 1, f)
    BY <1>1, <1>2, ReplacingTurns
  <2>. QED
    BY <1>2, <2>1, Zenon DEF Replaces
<1>4. \A i \in 1 .. Len(s) + Len(pattern) : f[i] \in Seq(T)
  BY <1>1, ReplaceIsScanOf, ScanType DEF Replacing
<1>5. CASE HasAt(s, 1, pattern)
  <2>. DEFINE r == f[1 + Len(pattern)]
  <2>1. r \in Seq(T) /\ f[1] = new \o r
    BY <1>2, <1>3, <1>4, <1>5
  <2>. HIDE DEF r
  <2>2. Len(new \o r) = Len(new) + Len(r) /\ Len(r) \in Nat /\ Len(new) \in Nat
    BY <1>0, <2>1
  <2>. QED
    BY <1>1, <2>1, <2>2
<1>6. CASE ~HasAt(s, 1, pattern)
  <2>. DEFINE r == f[2]
              u == <<s[1]>>
  <2>1. r \in Seq(T) /\ f[1] = u \o r
    BY <1>2, <1>3, <1>4, <1>6
  <2>2. u \in Seq(T) /\ Len(u) = 1
    BY <1>0
  <2>. HIDE DEF r, u
  <2>3. Len(u \o r) = Len(u) + Len(r)
    BY <2>1, <2>2, ConcatProperties
  <2>4. Len(r) \in Nat
    BY <2>1
  <2>. QED
    BY <1>1, <2>1, <2>2, <2>3, <2>4
<1>. QED
  BY <1>5, <1>6

\* A path is empty once its escapes are undone only if it was empty.
LEMMA UnescapedSome ==
  ASSUME NEW s \in Seq(Char)
  PROVE  Len(Unescaped(s)) = 0 <=> Len(s) = 0
<1>0. {Hash, Quest, Colon, Dash} \subseteq Char
  BY SplitMarks
<1>. DEFINE q2 == <<Quest, Quest>>
            q1 == <<Quest>>
            h2 == <<Hash, Hash>>
            h1 == <<Hash>>
            d3 == <<Colon, Colon, Dash>>
            d2 == <<Colon, Dash>>
            a == ReplaceEach(s, q2, q1)
            b == ReplaceEach(a, h2, h1)
            c == ReplaceEach(b, d3, d2)
<1>a. /\ Len(q2) \in Nat \ {0} /\ Len(h2) \in Nat \ {0} /\ Len(d3) \in Nat \ {0}
      /\ q1 \in Seq(Char) /\ h1 \in Seq(Char) /\ d2 \in Seq(Char)
      /\ Len(q1) >= 1 /\ Len(h1) >= 1 /\ Len(d2) >= 1
  BY <1>0
<1>7. Unescaped(s) = c
  BY Zenon DEF Unescaped, a, b, c, Hash, Quest, Colon, Dash
<1>. HIDE DEF q2, q1, h2, h1, d3, d2
<1>1. ASSUME NEW t \in Seq(Char), NEW pattern, Len(pattern) \in Nat \ {0},
             NEW new \in Seq(Char), Len(new) >= 1
      PROVE  LET u == ReplaceEach(t, pattern, new) IN
             u \in Seq(Char) /\ (Len(u) = 0 <=> Len(t) = 0)
  <2>. DEFINE u == ReplaceEach(t, pattern, new)
  <2>1. Replaceable(Char, t, pattern, new)
    BY <1>1 DEF Replaceable
  <2>2. u \in Seq(Char)
    BY <2>1, ReplaceEachType
  <2>3. Len(t) = 0 => u = <<>>
    BY <2>1, ReplaceNothing
  <2>4. Len(t) >= 1 => Len(u) >= 1
    BY <1>1, <2>1, ReplaceKeepsSome
  <2>. HIDE DEF u
  <2>5. Len(t) \in Nat /\ Len(u) \in Nat /\ Len(<<>>) = 0
    BY <2>2
  <2>6. Len(u) = 0 <=> Len(t) = 0
    BY <2>3, <2>4, <2>5
  <2>. QED
    BY <2>2, <2>6 DEF u
<1>2. a \in Seq(Char) /\ (Len(a) = 0 <=> Len(s) = 0)
  BY <1>1, <1>a
<1>. HIDE DEF a
<1>3. b \in Seq(Char) /\ (Len(b) = 0 <=> Len(a) = 0)
  BY <1>1, <1>2, <1>a
<1>. HIDE DEF b
<1>4. c \in Seq(Char) /\ (Len(c) = 0 <=> Len(b) = 0)
  BY <1>1, <1>3, <1>a
<1>. HIDE DEF c
<1>. QED
  BY <1>2, <1>3, <1>4, <1>7

\* A split at a single separator keeps the first token when it is another.
LEMMA SingleKeeps ==
  ASSUME NEW T, NEW s \in Seq(T), Len(s) >= 1, NEW token, s[1] # token
  PROVE  LET c == SplitSingle(s, token) IN
         c.head \in Seq(T) /\ Len(c.head) >= 1 /\ c.head[1] = s[1] /\ PartOf(T, c.tail)
<1>. DEFINE n == Len(s)
            D == 1 .. n + 1
            m == [i \in D |-> n + 1 - i]
            k == FirstSingle(s, token)
<1>0. n \in Nat /\ n >= 1
  OBVIOUS
<1>1. PICK f \in [1 .. Len(s) + 1 -> 0 .. Len(s)] : SinglesScan(s, token, f) /\ FirstSingle(s, token) = f[1]
  BY FirstSingleScans
<1>. DEFINE S == {i \in D : i >= 2 => f[i] # 1}
<1>2. m \in [D -> Nat] /\ \A i, j \in D : m[j] < m[i] <=> j > i
  BY <1>0
<1>3. ASSUME NEW i \in D, \A j \in D : m[j] < m[i] => j \in S PROVE i \in S
  <2>. SUFFICES ASSUME i >= 2 PROVE f[i] # 1
    OBVIOUS
  <2>1. \A j \in D : j > i => f[j] # 1
    BY <1>2, <1>3
  <2>2. CASE i = n + 1
    <3>1. i \in 1 .. Len(s) + 1 /\ i > Len(s)
      BY <1>0, <2>2
    <3>2. f[i] = 0
      BY <1>1, <3>1, Zenon DEF SinglesScan, Singles
    <3>. QED
      BY <3>2
  <2>3. CASE i # n + 1
    <3>1. i \in 1 .. Len(s) /\ i + 1 \in D /\ i + 1 > i /\ i + 2 > i /\ (i + 1 <= n => i + 2 \in D)
      BY <1>0, <2>3
    <3>2. /\ s[i] # token => f[i] = f[i + 1]
          /\ s[i] = token /\ i + 1 <= Len(s) /\ s[i + 1] = token => f[i] = f[i + 2]
          /\ s[i] = token /\ ~(i + 1 <= Len(s) /\ s[i + 1] = token) => f[i] = i
      BY <1>1, <3>1, SinglesTurn
    <3>3. f[i + 1] # 1 /\ (i + 1 <= n => f[i + 2] # 1) /\ i # 1
      BY <2>1, <3>1
    <3>. QED
      BY <3>2, <3>3
  <2>. QED
    BY <2>2, <2>3
<1>4. D \subseteq S
  <2>. HIDE DEF D, S, m
  <2>. QED
    BY <1>2, <1>3, MeasureInduction
<1>5. k = f[1] /\ k # 1 /\ k \in 0 .. n
  <2>1. 1 \in 1 .. Len(s) /\ 2 \in D /\ 1 \in D /\ 1 + 1 = 2
    BY <1>0
  <2>2. f[1] = f[1 + 1]
    BY <1>1, <2>1, SinglesTurn
  <2>3. f[2] # 1
    BY <1>4, <2>1
  <2>. QED
    BY <1>1, <2>1, <2>2, <2>3
<1>. HIDE DEF k
<1>6. CASE k = 0
  <2>1. SplitSingle(s, token) = [head |-> s, tail |-> None]
    BY <1>6, Zenon DEF SplitSingle, Whole, k
  <2>. QED
    BY <1>0, <2>1 DEF PartOf
<1>7. CASE k # 0
  <2>. DEFINE h == SubSeq(s, 1, k - 1)
              t == SubSeq(s, k + 1, n)
  <2>1. SplitSingle(s, token) = [head |-> h, tail |-> t]
    BY <1>7, Zenon DEF SplitSingle, Cut, k
  <2>2. k - 1 \in 1 .. n /\ k \in Nat
    BY <1>0, <1>5, <1>7
  <2>3. h \in Seq(T) /\ Len(h) = k - 1 /\ h[1] = s[1]
    <3>. DEFINE x == k - 1
    <3>1. x \in 1 .. n
      BY <2>2
    <3>. HIDE DEF x
    <3>2. SubSeq(s, 1, x) \in Seq(T) /\ Len(SubSeq(s, 1, x)) = x /\ SubSeq(s, 1, x)[1] = s[1]
      BY <1>0, <3>1
    <3>. QED
      BY <3>2 DEF x
  <2>4. t \in Seq(T)
    BY <1>0, <2>2, PieceType
  <2>. HIDE DEF h, t
  <2>. QED
    BY <2>1, <2>2, <2>3, <2>4 DEF PartOf
<1>. QED
  BY <1>6, <1>7

\* Before a body that begins with -, the colon of the scheme is taken for the
\* default separator, and no scheme is left.
LEMMA DashRefused ==
  ASSUME NEW s \in Seq(Char), NEW body, IsInner(s, body), Len(body) >= 1, body[1] = Dash
  PROVE  ParseSecretRef(s) = Failed
<1>1. body \in Seq(Char) /\ Len(s) = Len(body) + 2 /\ Len(body) \in Nat
      /\ \A j \in 1 .. Len(body) : body[j] = s[j + 2]
  BY InnerBody
<1>2. s[1] \in Lower /\ s[2] = Colon /\ s[1] # Colon
  BY ReadMarks DEF IsInner
<1>3. s[3] = Dash
  <2>1. 1 \in 1 .. Len(body) /\ 1 + 2 = 3
    BY <1>1
  <2>. QED
    BY <1>1, <2>1
<1>4. IsFirstDefault(s, 1) /\ 1 < Len(s)
  <2>1. 1 <= Len(s) /\ 1 < Len(s) /\ 1 + 1 = 2 /\ 2 + 1 = 3 /\ 2 + 1 <= Len(s) /\ 2 - 1 = 1
        /\ \A j \in 1 .. 1 : j = 1
    BY <1>1
  <2>2. IsColonDash(s, 2) /\ ~IsColonDash(s, 1)
    BY <1>2, <1>3, <2>1 DEF IsColonDash
  <2>. QED
    BY <2>1, <2>2 DEF IsFirstDefault
<1>5. SplitDefault(s) = Cut(s, 2, 2)
  BY <1>4, SplitAtDefault
<1>. DEFINE u == SubSeq(s, 1, 1)
<1>6. SplitDefault(s).head = u
  BY <1>5 DEF Cut
<1>7. u \in Seq(Char) /\ Len(u) = 1 /\ u[1] = s[1]
  BY <1>4
<1>. HIDE DEF u
<1>8. CutAtFirst(u, Colon).tail = None
  <2>1. \A j \in 1 .. Len(u) : u[j] # Colon
    BY <1>2, <1>7
  <2>2. CutAtFirst(u, Colon) = [head |-> u, tail |-> None]
    <3>1. ~\E i \in 1 .. Len(u) : u[i] = Colon
      BY <2>1
    <3>. QED
      BY <1>7, <3>1, FirstCut
  <2>. QED
    BY <2>2
<1>9. CutAtFirst(SplitDefault(s).head, Colon).tail = None
  BY <1>6, <1>8
<1>. QED
  BY <1>9, Zenon DEF ParseSecretRef, Colon

\* Before a body that begins with :-, the path goes on past the separator.
LEMMA ColonDashKept ==
  ASSUME NEW s \in Seq(Char), NEW body, IsInner(s, body),
         Len(body) >= 2, body[1] = Colon, body[2] = Dash,
         ParseSecretRef(s).ok
  PROVE  Len(ParseSecretRef(s).path) >= 1
<1>. DEFINE withDefault == SplitDefault(s)
            withScheme == CutAtFirst(withDefault.head, Colon)
            withField == SplitSingle(withScheme.tail, Hash)
            withQuery == SplitSingle(withField.head, Quest)
            u == Unescaped(withQuery.head)
            x == IF withQuery.tail = None THEN <<>> ELSE Cons(Quest, DecodeQuery(withQuery.tail))
            y == IF withField.tail = None THEN <<>>
                 ELSE Cons(Hash, ReplaceEach(withField.tail, <<Hash, Hash>>, <<Hash>>))
<1>0. {Hash, Quest} \subseteq Char /\ None \notin Seq(Char)
  BY SplitMarks, CharAssumption
<1>1. body \in Seq(Char) /\ Len(s) = Len(body) + 2 /\ Len(body) \in Nat
      /\ \A j \in 1 .. Len(body) : body[j] = s[j + 2]
  BY InnerBody
<1>2. s[1] # Colon /\ s[2] = Colon /\ s[3] = Colon /\ s[4] = Dash
  <2>1. 1 \in 1 .. Len(body) /\ 2 \in 1 .. Len(body) /\ 1 + 2 = 3 /\ 2 + 2 = 4
    BY <1>1
  <2>2. s[1] # Colon /\ s[2] = Colon
    BY ReadMarks DEF IsInner
  <2>. QED
    BY <1>1, <2>1, <2>2
<1>3. PICK e \in 0 .. Len(s) : IsFirstDefault(s, e)
  BY FirstDefault
<1>4. e >= 4
  <2>. SUFFICES ASSUME e < 4 PROVE FALSE
    BY <1>1, <1>3
  <2>1. IsColonDash(s, e + 1)
    BY <1>1, <1>3 DEF IsFirstDefault
  <2>2. e = 0 \/ e = 1 \/ e = 2 \/ e = 3
    BY <1>3
  <2>3. ~IsColonDash(s, 0 + 1)
    BY <1>2 DEF IsColonDash
  <2>4. ~IsColonDash(s, 1 + 1)
    BY <1>2, ReadMarks DEF IsColonDash
  <2>5. ~IsColonDash(s, 2 + 1)
    BY <1>2 DEF IsColonDash
  <2>6. ~IsColonDash(s, 3 + 1)
    BY <1>2, ReadMarks DEF IsColonDash
  <2>. QED
    BY <2>1, <2>2, <2>3, <2>4, <2>5, <2>6
<1>5. withDefault.head = Slice(s, 0, e)
  <2>1. SplitDefault(s) = IF e < Len(s) THEN Cut(s, e + 1, 2) ELSE Whole(s)
    BY <1>3, SplitAtDefault
  <2>2. e + 1 - 1 = e /\ 0 + 1 = 1 /\ Len(s) \in Nat /\ (~(e < Len(s)) => e = Len(s))
    BY <1>1, <1>3
  <2>3. CASE e < Len(s)
    BY <2>1, <2>2, <2>3 DEF Cut, Slice
  <2>4. CASE ~(e < Len(s))
    <3>1. SubSeq(s, 1, Len(s)) = s
      BY SubSeqFull
    <3>. QED
      BY <2>1, <2>2, <2>4, <3>1 DEF Whole, Slice
  <2>. QED
    BY <2>3, <2>4
<1>. HIDE DEF withDefault
<1>. DEFINE k == e - 2
            t == Slice(body, 0, k)
<1>6. k \in Nat /\ k <= Len(body) /\ k + 2 = e /\ k >= 2
  BY <1>1, <1>3, <1>4
<1>. HIDE DEF k
<1>7. withScheme.tail = t
  <2>1. CutAtFirst(Slice(s, 0, k + 2), Colon) = [head |-> <<s[1]>>, tail |-> t]
    BY <1>6, SchemeCut
  <2>. QED
    BY <1>5, <1>6, <2>1
<1>8. t \in Seq(Char) /\ Len(t) >= 1 /\ t[1] = Colon
  <2>1. 0 \in Nat /\ 1 \in 1 .. k /\ Len(body) \in Nat
    BY <1>1, <1>6
  <2>2. IsHead(Char, t, body, k)
    BY <1>1, <1>6, HeadSlice
  <2>. QED
    BY <1>6, <2>1, <2>2 DEF IsHead
<1>. HIDE DEF t, withScheme
<1>9. /\ withField.head \in Seq(Char) /\ Len(withField.head) >= 1 /\ withField.head[1] = Colon
      /\ PartOf(Char, withField.tail)
  <2>1. t[1] # Hash
    BY <1>8, ReadMarks
  <2>2. LET c == SplitSingle(t, Hash) IN
        c.head \in Seq(Char) /\ Len(c.head) >= 1 /\ c.head[1] = t[1] /\ PartOf(Char, c.tail)
    BY <1>8, <2>1, SingleKeeps
  <2>. QED
    BY <1>7, <1>8, <2>2
<1>. HIDE DEF withField
<1>10. /\ withQuery.head \in Seq(Char) /\ Len(withQuery.head) >= 1
       /\ PartOf(Char, withQuery.tail)
  <2>. DEFINE h == withField.head
  <2>1. h \in Seq(Char) /\ Len(h) >= 1 /\ h[1] # Quest
    BY <1>9, ReadMarks
  <2>. HIDE DEF h
  <2>2. LET c == SplitSingle(h, Quest) IN
        c.head \in Seq(Char) /\ Len(c.head) >= 1 /\ c.head[1] = h[1] /\ PartOf(Char, c.tail)
    BY <2>1, SingleKeeps
  <2>. QED
    BY <2>2 DEF h
<1>11. ParseSecretRef(s) =
         IF \/ withScheme.tail = None
            \/ ~IsScheme(withScheme.head)
            \/ withQuery.tail # None /\ ~IsQuery(withQuery.tail)
         THEN Failed
         ELSE [ok |-> TRUE, scheme |-> withScheme.head, path |-> u \o x \o y,
               default |-> withDefault.tail]
  BY Zenon DEF ParseSecretRef, withDefault, withScheme, withField, withQuery, Cons, Colon, Hash, Quest
<1>. HIDE DEF withQuery
<1>12. u \in Seq(Char) /\ Len(u) >= 1
  <2>1. u \in Seq(Char)
    BY <1>10, UnescapedType
  <2>2. Len(u) # 0
    <3>. DEFINE h == withQuery.head
    <3>1. h \in Seq(Char) /\ Len(h) >= 1
      BY <1>10
    <3>. HIDE DEF h
    <3>2. Len(Unescaped(h)) = 0 <=> Len(h) = 0
      BY <3>1, UnescapedSome
    <3>3. Len(h) # 0
      BY <3>1
    <3>. QED
      BY <3>2, <3>3 DEF h
  <2>. HIDE DEF u
  <2>3. Len(u) \in Nat
    BY <2>1
  <2>. QED
    BY <2>1, <2>2, <2>3
<1>13. x \in Seq(Char)
  <2>1. CASE withQuery.tail = None
    BY <2>1
  <2>2. CASE withQuery.tail # None
    <3>. DEFINE q == withQuery.tail
                z == DecodedBy(Escapes, q)
    <3>1. q \in Seq(Char)
      BY <1>10, <2>2 DEF PartOf
    <3>2. DecodeQuery(q) = z
      BY Zenon DEF DecodeQuery
    <3>. HIDE DEF q
    <3>3. z \in Seq(Char)
      BY <3>1, EscapesAssumption, DecodedType
    <3>. HIDE DEF z
    <3>4. Cons(Quest, z) \in Seq(Char)
      BY <1>0, <3>3, ConsLaws
    <3>5. x = Cons(Quest, z)
      BY <2>2, <3>2, Zenon DEF q
    <3>. QED
      BY <3>4, <3>5
  <2>. QED
    BY <2>1, <2>2
<1>14. y \in Seq(Char)
  <2>1. CASE withField.tail = None
    BY <2>1
  <2>2. CASE withField.tail # None
    <3>. DEFINE f == withField.tail
                z == ReplaceEach(f, <<Hash, Hash>>, <<Hash>>)
    <3>1. Replaceable(Char, f, <<Hash, Hash>>, <<Hash>>)
      BY <1>0, <1>9, <2>2 DEF PartOf, Replaceable
    <3>2. z \in Seq(Char)
      BY <3>1, ReplaceEachType
    <3>. HIDE DEF z
    <3>3. Cons(Hash, z) \in Seq(Char)
      BY <1>0, <3>2, ConsLaws
    <3>4. y = Cons(Hash, z)
      BY <2>2, Zenon DEF z
    <3>. QED
      BY <3>3, <3>4
  <2>. QED
    BY <2>1, <2>2
<1>. HIDE DEF u, x, y
<1>15. ParseSecretRef(s).path = u \o x \o y
  <2>1. ~Failed.ok
    BY Zenon DEF Failed
  <2>2. ParseSecretRef(s) # Failed
    BY <2>1, Zenon
  <2>3. ParseSecretRef(s) = [ok |-> TRUE, scheme |-> withScheme.head, path |-> u \o x \o y,
                             default |-> withDefault.tail]
    BY <1>11, <2>2, Zenon
  <2>. QED
    BY <2>3
<1>16. Len(u \o x) = Len(u) + Len(x) /\ u \o x \in Seq(Char)
  BY <1>12, <1>13, ConcatProperties
<1>17. Len((u \o x) \o y) = Len(u \o x) + Len(y)
  BY <1>14, <1>16, ConcatProperties
<1>18. Len(u) \in Nat /\ Len(x) \in Nat /\ Len(y) \in Nat
  BY <1>12, <1>13, <1>14
<1>. QED
  BY <1>12, <1>15, <1>16, <1>17, <1>18

\* The only reading of such a body is an empty path.
LEMMA ColonDashReads ==
  ASSUME NEW body \in Seq(Char), Len(body) >= 2, body[1] = Colon, body[2] = Dash,
         NEW r \in Readings(body)
  PROVE  Len(CanonicalPath(r)) = 0
<1>0. Len(body) \in Nat
  OBVIOUS
<1>1. PICK a \in 0 .. Len(body), b \in 0 .. Len(body), d \in 0 .. Len(body) :
         Fits(body, a, b, d) /\ r = ReadingOf(body, a, b, d)
  <2>1. \E a, b, d \in 0 .. Len(body) : Fits(body, a, b, d) /\ r = ReadingOf(body, a, b, d)
    BY ReadingsForm
  <2>. QED
    BY <2>1
<1>. DEFINE p == Slice(body, 0, a)
<1>2. p \in Seq(Char) /\ Len(p) = a /\ \A j \in 1 .. a : p[j] = body[j]
  <2>1. 0 \in Nat /\ a \in Nat /\ 0 <= a /\ a <= Len(body)
    BY <1>0
  <2>2. IsHead(Char, p, body, a)
    BY <2>1, HeadSlice
  <2>. QED
    BY <2>2 DEF IsHead
<1>3. IsEscapedPath(p)
  BY <1>1 DEF Fits
<1>4. r.path = Unescaped(p)
  BY <1>1 DEF ReadingOf
<1>. HIDE DEF p
<1>5. a = 0
  <2>1. a # 1
    <3>. SUFFICES ASSUME a = 1 PROVE FALSE
      OBVIOUS
    <3>1. a < Len(body) /\ a + 1 = 2
      BY <1>0
    <3>2. body[2] \in {Quest, Hash, Colon}
      BY <1>1, <3>1 DEF Fits
    <3>. QED
      BY <3>2, ReadMarks
  <2>2. ~(a >= 2)
    <3>. SUFFICES ASSUME a >= 2 PROVE FALSE
      OBVIOUS
    <3>1. 1 \in 1 .. a /\ 2 \in 1 .. a /\ 1 + 1 = 2 /\ 1 + 1 <= a /\ ~(1 > 1)
      OBVIOUS
    <3>2. p[1] = Colon /\ p[2] = Dash
      BY <1>2, <3>1
    <3>3. IsColonDash(p, 1)
      BY <1>2, <3>1, <3>2 DEF IsColonDash
    <3>4. ~IsColonDash(p, 1)
      BY <1>2, <1>3, <3>1, EscapedHasNoDefault
    <3>. QED
      BY <3>3, <3>4
  <2>. QED
    BY <2>1, <2>2
<1>6. b = 0
  <2>1. ~(a < b)
    <3>1. a < b => body[1] = Quest
      BY <1>1, <1>5 DEF Fits
    <3>. QED
      BY <3>1, ReadMarks
  <2>. QED
    BY <1>5, <2>1
<1>7. d = 0
  <2>1. ~(b < d)
    <3>1. b < d => body[1] = Hash
      BY <1>1, <1>6 DEF Fits
    <3>. QED
      BY <3>1, ReadMarks
  <2>. QED
    BY <1>6, <2>1
<1>8. r.query = None /\ r.field = None
  <2>1. a = b /\ b = d
    BY <1>5, <1>6, <1>7
  <2>. QED
    BY <1>1, <2>1 DEF ReadingOf, Behind
<1>9. r.path \in Seq(Char) /\ Len(r.path) = 0
  <2>1. Len(Unescaped(p)) = 0 <=> Len(p) = 0
    BY <1>2, UnescapedSome
  <2>2. Unescaped(p) \in Seq(Char)
    BY <1>2, UnescapedType
  <2>. QED
    BY <1>2, <1>4, <1>5, <2>1, <2>2
<1>10. CanonicalPath(r) = r.path \o <<>> \o <<>>
  BY <1>8, Zenon DEF CanonicalPath
<1>. DEFINE path == r.path
<1>11. path \in Seq(Char) /\ Len(path) = 0
  BY <1>9
<1>. HIDE DEF path
<1>12. path \o <<>> = path
  BY <1>11, ConcatEmptySeq
<1>13. CanonicalPath(r) = path
  BY <1>10, <1>12, Zenon DEF path
<1>. QED
  BY <1>11, <1>13

\* No reading of a body that begins with - or :- is agreed on.
LEMMA DashedDisagrees ==
  ASSUME NEW s \in Seq(Char), NEW body, IsInner(s, body), BeginsDashed(body),
         NEW r \in Readings(body)
  PROVE  ~Agrees(ParseSecretRef(s), r)
<1>. SUFFICES ASSUME Agrees(ParseSecretRef(s), r) PROVE FALSE
  OBVIOUS
<1>1. body \in Seq(Char) /\ ParseSecretRef(s).ok /\ ParseSecretRef(s).path = CanonicalPath(r)
  <2>1. body \in Seq(Char)
    BY InnerBody
  <2>2. ParseSecretRef(s).ok /\ ParseSecretRef(s).path = CanonicalPath(r)
    BY Zenon DEF Agrees
  <2>. QED
    BY <2>1, <2>2
<1>2. CASE Len(body) >= 1 /\ body[1] = Dash
  <2>1. ParseSecretRef(s) = Failed
    BY <1>2, DashRefused
  <2>2. ~Failed.ok
    BY Zenon DEF Failed
  <2>. QED
    BY <1>1, <2>1, <2>2, Zenon
<1>3. CASE Len(body) >= 2 /\ body[1] = Colon /\ body[2] = Dash
  <2>1. Len(ParseSecretRef(s).path) >= 1
    BY <1>1, <1>3, ColonDashKept
  <2>2. Len(CanonicalPath(r)) = 0
    BY <1>1, <1>3, ColonDashReads
  <2>. QED
    BY <1>1, <2>1, <2>2
<1>. QED
  BY <1>2, <1>3 DEF BeginsDashed

\* Whatever is written in it, a reference that the grammar allows is read as the
\* grammar reads it, but for the three exceptions: a + of a query, a body that
\* begins with :- and one that begins with - (secret_grammar.go:48-142).
THEOREM ReadAsWrittenHolds == Spec => []ReadAsWritten
<1>1. Inv => ReadAsWritten
  <2>. DEFINE s == Inner(leaf.text)
              dashed == HasAt(Body, 1, <<Colon, Dash>>) \/ HasAt(Body, 1, <<Dash>>)
              agreed == \E r \in LegalReadings : Agrees(ParseSecretRef(s), r)
              plus == \A r \in LegalReadings : HasPlus(r)
  <2>. SUFFICES ASSUME Inv, IsBodyCase, LegalReadings # {}
                PROVE  agreed <=> ~(dashed \/ plus)
    BY Zenon DEF ReadAsWritten, Colon, Dash
  <2>1. leaf.text \in Seq(Char)
    BY CasesAssumption DEF Inv, Sound
  <2>2. s \in Seq(Char)
    BY <2>1, InnerHasNoBrace DEF IsBodyCase
  <2>3. IsInner(s, Body)
    <3>1. Len(s) >= 2 /\ s[1] \in Lower /\ s[2] = Colon
      BY Zenon DEF IsBodyCase, Colon
    <3>2. Body = Slice(s, 2, Len(s))
      BY DEF Body, Slice
    <3>. QED
      BY <3>1, <3>2, Zenon DEF IsInner
  <2>. HIDE DEF s
  <2>4. Body \in Seq(Char)
    BY <2>2, <2>3, InnerBody
  <2>5. dashed <=> BeginsDashed(Body)
    <3>. DEFINE b == Body
    <3>1. b \in Seq(Char) /\ Len(b) \in Nat
      BY <2>4
    <3>. HIDE DEF b
    <3>2. CASE Len(b) = 0
      <4>1. ~HasAt(b, 1, <<Colon, Dash>>) /\ ~HasAt(b, 1, <<Dash>>)
        <5>1. Len(<<Colon, Dash>>) = 2 /\ Len(<<Dash>>) = 1
          OBVIOUS
        <5>. QED
          BY <3>2, <5>1 DEF HasAt
      <4>2. ~BeginsDashed(b)
        BY <3>2 DEF BeginsDashed
      <4>. QED
        BY <4>1, <4>2 DEF b
    <3>3. CASE Len(b) # 0
      <4>1. 1 \in 1 .. Len(b) /\ 1 + 1 = 2 /\ Len(b) >= 1 /\ (1 + 1 <= Len(b) <=> Len(b) >= 2)
        BY <3>1, <3>3
      <4>2. HasAt(b, 1, <<Colon, Dash>>) <=> 1 + 1 <= Len(b) /\ b[1] = Colon /\ b[1 + 1] = Dash
        BY <3>1, <4>1, HasTwoAt
      <4>3. HasAt(b, 1, <<Dash>>) <=> b[1] = Dash
        BY <3>1, <4>1, HasOneAt
      <4>. QED
        BY <4>1, <4>2, <4>3 DEF BeginsDashed, b
    <3>. QED
      BY <3>2, <3>3
  <2>6. CASE BeginsDashed(Body)
    <3>1. \A r \in LegalReadings : ~Agrees(ParseSecretRef(s), r)
      BY <2>2, <2>3, <2>6, DashedDisagrees DEF LegalReadings
    <3>. QED
      BY <2>5, <2>6, <3>1
  <2>7. CASE ~BeginsDashed(Body)
    <3>1. Readings(Body) # {}
      BY DEF LegalReadings
    <3>2. (\E r \in Readings(Body) : Agrees(ParseSecretRef(s), r))
          <=> ~(\A r \in Readings(Body) : HasPlus(r))
      BY <2>2, <2>3, <2>7, <3>1, ReadAgreed
    <3>3. agreed <=> ~plus
      BY <3>2, Zenon DEF LegalReadings
    <3>. HIDE DEF agreed, plus, dashed
    <3>. QED
      BY <2>5, <2>7, <3>3
  <2>. QED
    BY <2>6, <2>7
<1>. QED
  BY InitSound, NextSound, <1>1, PTL DEF Spec
=============================================================================
