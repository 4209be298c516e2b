-------------------------- MODULE RecursionProofs --------------------------
(***************************************************************************)
(* Induction and recursion, for sets and functions: what the theorems of   *)
(* the standard library say with an operator as their parameter, said with *)
(* a set.  Every proof about a recursive function of this project begins   *)
(* here.                                                                   *)
(***************************************************************************)
EXTENDS Naturals, SequencesExt, WellFoundedInduction, TLAPS

\* Induction over the naturals, for a set: a set with zero and with the
\* successor of each number in it holds them all.
LEMMA NatSetInduction ==
  ASSUME NEW S, 0 \in S, \A n \in Nat : n \in S => n + 1 \in S
  PROVE  Nat \subseteq S
<1>. DEFINE R == OpToRel(<, Nat)
            T == Nat \ S
<1>1. IsWellFoundedOn(R, Nat)
  BY NatLessThanWellFounded
<1>. SUFFICES ASSUME T # {} PROVE FALSE
  OBVIOUS
<1>2. T \subseteq Nat
  OBVIOUS
<1>. HIDE DEF R
<1>3. PICK x \in T : \A y \in T : <<y, x>> \notin R
  BY <1>1, <1>2, WFMin
<1>4. x - 1 \in Nat /\ x - 1 < x
  OBVIOUS
<1>5. <<x - 1, x>> \in R
  BY <1>4 DEF OpToRel, R
<1>. QED
  BY <1>3, <1>4, <1>5

\* A set of naturals with an element has a smallest one.
LEMMA SmallestNumber ==
  ASSUME NEW S, S \subseteq Nat, S # {}
  PROVE  \E x \in S : \A y \in S : x <= y
<1>. DEFINE Above == {n \in Nat : \A y \in S : n <= y}
<1>. SUFFICES ASSUME \A x \in S : \E y \in S : ~(x <= y) PROVE FALSE
  OBVIOUS
<1>1. 0 \in Above
  OBVIOUS
<1>2. ASSUME NEW n \in Nat, n \in Above PROVE n + 1 \in Above
  BY <1>2
<1>3. Nat \subseteq Above
  <2>. HIDE DEF Above
  <2>. QED
    BY <1>1, <1>2, NatSetInduction
<1>4. PICK x \in S : TRUE
  OBVIOUS
<1>5. x + 1 \in Above
  BY <1>3
<1>. QED
  BY <1>5

\* Induction along a measure: a set with each element of D that it has all
\* the elements of a smaller measure of holds D.
LEMMA MeasureInduction ==
  ASSUME NEW D, NEW m \in [D -> Nat], NEW S,
         \A x \in D : (\A y \in D : m[y] < m[x] => y \in S) => x \in S
  PROVE  D \subseteq S
<1>. DEFINE Below == {n \in Nat : \A x \in D : m[x] < n => x \in S}
<1>1. 0 \in Below
  OBVIOUS
<1>2. ASSUME NEW n \in Nat, n \in Below PROVE n + 1 \in Below
  <2>. SUFFICES ASSUME NEW x \in D, m[x] < n + 1 PROVE x \in S
    OBVIOUS
  <2>1. m[x] \in Nat /\ m[x] <= n
    OBVIOUS
  <2>2. ASSUME NEW y \in D, m[y] < m[x] PROVE y \in S
    <3>1. m[y] \in Nat /\ m[y] < n
      BY <2>1, <2>2
    <3>. QED
      BY <1>2, <3>1
  <2>. QED
    BY <2>2
<1>3. Nat \subseteq Below
  <2>. HIDE DEF Below
  <2>. QED
    BY <1>1, <1>2, NatSetInduction
<1>. SUFFICES ASSUME NEW x \in D PROVE x \in S
  OBVIOUS
<1>4. m[x] + 1 \in Nat /\ m[x] < m[x] + 1
  OBVIOUS
<1>. QED
  BY <1>3, <1>4

\* Recursion along a measure: Step[x] looks at values of a smaller measure only.
IsRecursion(D, Val, m, Step) ==
  /\ Val # {}
  /\ m \in [D -> Nat]
  /\ Step \in [D -> [[D -> Val] -> Val]]
  /\ \A x \in D : \A f, g \in [D -> Val] :
        (\A y \in D : m[y] < m[x] => f[y] = g[y]) => Step[x][f] = Step[x][g]

\* Then there is a function that obeys it.
LEMMA Recursion ==
  ASSUME NEW D, NEW Val, NEW m, NEW Step, IsRecursion(D, Val, m, Step)
  PROVE  \E f \in [D -> Val] : \A x \in D : f[x] = Step[x][f]
<1>. USE DEF IsRecursion
<1>. DEFINE Obeys(f, n) == \A x \in D : m[x] < n => f[x] = Step[x][f]
            Done == {n \in Nat : \E f \in [D -> Val] : Obeys(f, n)}
<1>1. 0 \in Done
  <2>1. PICK v \in Val : TRUE
    OBVIOUS
  <2>2. [x \in D |-> v] \in [D -> Val] /\ Obeys([x \in D |-> v], 0)
    OBVIOUS
  <2>. QED
    BY <2>2
<1>2. ASSUME NEW n \in Nat, n \in Done PROVE n + 1 \in Done
  <2>1. PICK f \in [D -> Val] : Obeys(f, n)
    BY <1>2
  <2>. DEFINE g == [x \in D |-> IF m[x] < n THEN f[x] ELSE Step[x][f]]
  <2>2. g \in [D -> Val]
    OBVIOUS
  <2>3. ASSUME NEW x \in D, m[x] < n + 1 PROVE g[x] = Step[x][g]
    <3>1. \A y \in D : m[y] < m[x] => f[y] = g[y]
      BY <2>3
    <3>2. Step[x][f] = Step[x][g]
      BY <2>2, <3>1
    <3>3. g[x] = Step[x][f]
      BY <2>1, <2>3
    <3>. QED
      BY <3>2, <3>3
  <2>. HIDE DEF g
  <2>. QED
    BY <2>2, <2>3
<1>3. Nat \subseteq Done
  <2>. HIDE DEF Done
  <2>. QED
    BY <1>1, <1>2, NatSetInduction
\* The functions that obey it so far agree, and together obey it everywhere.
<1>4. ASSUME NEW n \in Nat, NEW f \in [D -> Val], NEW g \in [D -> Val], Obeys(f, n), Obeys(g, n)
      PROVE  \A x \in D : m[x] < n => f[x] = g[x]
  <2>. DEFINE S == {x \in D : m[x] < n => f[x] = g[x]}
  <2>1. ASSUME NEW x \in D, \A y \in D : m[y] < m[x] => y \in S PROVE x \in S
    <3>. SUFFICES ASSUME m[x] < n PROVE f[x] = g[x]
      OBVIOUS
    <3>1. \A y \in D : m[y] < m[x] => f[y] = g[y]
      BY <2>1
    <3>2. Step[x][f] = Step[x][g]
      BY <3>1
    <3>. QED
      BY <1>4, <3>2
  <2>2. D \subseteq S
    <3>. HIDE DEF S
    <3>. QED
      BY <2>1, MeasureInduction
  <2>. QED
    BY <2>2
<1>. DEFINE F(n) == CHOOSE f \in [D -> Val] : Obeys(f, n)
            g == [x \in D |-> F(m[x] + 1)[x]]
<1>5. ASSUME NEW n \in Nat PROVE F(n) \in [D -> Val] /\ Obeys(F(n), n)
  BY <1>3
<1>. HIDE DEF F
<1>6. g \in [D -> Val]
  <2>1. ASSUME NEW x \in D PROVE F(m[x] + 1) \in [D -> Val]
    BY <1>5
  <2>. QED
    BY <2>1
<1>7. ASSUME NEW x \in D PROVE g[x] = Step[x][g]
  <2>. DEFINE n == m[x] + 1
              f == F(n)
  <2>1. n \in Nat /\ f \in [D -> Val] /\ Obeys(f, n)
    BY <1>5
  <2>. HIDE DEF f
  <2>2. ASSUME NEW y \in D, m[y] < m[x] PROVE g[y] = f[y]
    <3>. DEFINE k == m[y] + 1
                h == F(k)
    <3>1. k \in Nat /\ h \in [D -> Val] /\ Obeys(h, k)
      BY <1>5
    <3>. HIDE DEF h
    <3>2. Obeys(f, k)
      BY <2>1, <2>2
    <3>3. h[y] = f[y]
      <4>1. \A z \in D : m[z] < k => h[z] = f[z]
        <5>. HIDE DEF Obeys, k
        <5>. QED
          BY <1>4, <2>1, <3>1, <3>2
      <4>. QED
        BY <4>1
    <3>. QED
      BY <3>3 DEF h
  <2>3. Step[x][g] = Step[x][f]
    BY <1>6, <2>1, <2>2
  <2>4. g[x] = f[x] /\ f[x] = Step[x][f]
    BY <2>1 DEF f
  <2>. QED
    BY <2>3, <2>4
<1>. QED
  BY <1>6, <1>7

\* The pieces up to each place put in a row.
IsFlattening(T, q, v) ==
  /\ \A i \in 1 .. Len(q) : v[i] \in Seq(T) /\ v[i] = IF i = 1 THEN q[i] ELSE v[i - 1] \o q[i]
  /\ FlattenSeq(q) = v[Len(q)]

\* Pieces put in a row are put there one by one.
LEMMA FlattenRuns ==
  ASSUME NEW T, NEW q \in Seq(Seq(T)), Len(q) # 0
  PROVE  \E v : IsFlattening(T, q, v)
<1>. DEFINE D == 1 .. Len(q)
            Val == Seq(T)
            m == [i \in D |-> i]
            Turned(f, i) == IF i = 1 THEN q[i] ELSE f[i - 1] \o q[i]
            Step == [i \in D |-> [f \in [D -> Val] |-> Turned(f, i)]]
            Def(f) == f = [i \in D |-> Turned(f, i)]
            v == CHOOSE f : Def(f)
<1>0. Len(q) \in Nat \ {0} /\ (\A i \in D : i \in Nat /\ q[i] \in Val) /\ D \subseteq Nat
  OBVIOUS
<1>1. \A i \in D : i = 1 \/ i - 1 \in D
  BY <1>0
<1>2. Val # {} /\ m \in [D -> Nat] /\ \E bound \in Nat : \A x \in D : m[x] <= bound
  <2>1. <<>> \in Val
    OBVIOUS
  <2>2. \A x \in D : m[x] <= Len(q)
    OBVIOUS
  <2>. QED
    BY <1>0, <2>1, <2>2
<1>3. ASSUME NEW x \in D, NEW f \in [D -> Val] PROVE Turned(f, x) \in Val
  <2>1. x = 1 \/ f[x - 1] \in Val
    BY <1>1
  <2>2. q[x] \in Val
    BY <1>0
  <2>. HIDE DEF D
  <2>. QED
    BY <2>1, <2>2
<1>4. ASSUME NEW x \in D, NEW f \in [D -> Val], NEW g \in [D -> Val],
             \A y \in D : m[y] < m[x] => f[y] = g[y]
      PROVE  Turned(f, x) = Turned(g, x)
  <2>1. x # 1 => x - 1 \in D /\ m[x - 1] < m[x]
    BY <1>0, <1>1
  <2>. HIDE DEF m, D
  <2>. QED
    BY <1>4, <2>1
<1>5. IsRecursion(D, Val, m, Step)
  <2>1. Step \in [D -> [[D -> Val] -> Val]]
    <3>. HIDE DEF D, Val, Turned
    <3>. QED
      BY <1>3
  <2>2. ASSUME NEW x \in D, NEW f \in [D -> Val], NEW g \in [D -> Val],
               \A y \in D : m[y] < m[x] => f[y] = g[y]
        PROVE  Step[x][f] = Step[x][g]
    <3>1. Turned(f, x) = Turned(g, x)
      BY <1>4, <2>2
    <3>. HIDE DEF D, Val, Turned, m
    <3>. QED
      BY <3>1
  <2>. HIDE DEF D, Val, m, Step
  <2>. QED
    BY <1>2, <2>1, <2>2 DEF IsRecursion
<1>6. PICK f \in [D -> Val] : \A x \in D : f[x] = Step[x][f]
  <2>. HIDE DEF D, Val, m, Step
  <2>. QED
    BY <1>5, Recursion
<1>7. Def(f)
  <2>1. \A x \in D : f[x] = Turned(f, x)
    <3>. HIDE DEF D, Val, Turned
    <3>. QED
      BY <1>6
  <2>. HIDE DEF D, Val, Turned
  <2>. QED
    BY <1>6, <2>1
<1>8. Def(v)
  <2>. HIDE DEF Def
  <2>. QED
    BY <1>7
<1>9. FlattenSeq(q) = v[Len(q)]
  BY DEF FlattenSeq
<1>. HIDE DEF v
<1>10. \A i \in D : v[i] = Turned(v, i)
  <2>. HIDE DEF D, Turned
  <2>. QED
    BY <1>8
<1>. DEFINE S == {i \in D : v[i] \in Val}
<1>11. ASSUME NEW x \in D, \A y \in D : m[y] < m[x] => y \in S PROVE x \in S
  <2>1. x # 1 => x - 1 \in D /\ m[x - 1] < m[x]
    BY <1>0, <1>1
  <2>2. x # 1 => v[x - 1] \in Val
    BY <1>11, <2>1
  <2>3. q[x] \in Val /\ v[x] = Turned(v, x)
    BY <1>0, <1>10
  <2>4. v[x] \in Val
    <3>. HIDE DEF D
    <3>. QED
      BY <2>2, <2>3
  <2>. QED
    BY <2>4
<1>12. D \subseteq S
  <2>. HIDE DEF D, S, m
  <2>. QED
    BY <1>2, <1>11, MeasureInduction
<1>13. IsFlattening(T, q, v)
  <2>1. \A i \in D : v[i] \in Val
    BY <1>12
  <2>. HIDE DEF v
  <2>. QED
    BY <1>9, <1>10, <2>1 DEF IsFlattening
<1>. QED
  BY <1>13
=============================================================================
