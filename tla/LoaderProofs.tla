---------------------------- MODULE LoaderProofs ----------------------------
(***************************************************************************)
(* Proofs about ConfigTree and Loader, for any atoms, keys, depth, sources,*)
(* lists, contents, trees and changes to files: the recursive functions do *)
(* what their definitions say, the merge of any two maps is decided by the *)
(* override at every path, and a stack of layers merged one by one is, at  *)
(* every path, what its last layer to speak says; IInv is inductive, and   *)
(* the safety properties follow from it.                                   *)
(*                                                                         *)
(* The inductions go over a set: the numbers, or the trees, that have the  *)
(* property.                                                               *)
(***************************************************************************)
EXTENDS Loader, RecursionProofs, SequenceTheorems

-----------------------------------------------------------------------------
(* Trees.                                                                  *)

\* The levels of TreesTo up to the n-th are defined, by one function only.
LevelsTo(n, f) ==
  f = [i \in 0 .. n |-> IF i = 0 THEN Leaf ELSE Leaf \cup [Key -> f[i - 1]]]

\* Two functions that both define the levels agree.
LEMMA LevelsUnique ==
  ASSUME NEW m \in Nat, NEW n \in Nat, NEW f, NEW g, LevelsTo(m, f), LevelsTo(n, g)
  PROVE  \A i \in 0 .. m : i <= n => f[i] = g[i]
<1>. DEFINE S == {i \in Nat : i <= m /\ i <= n => f[i] = g[i]}
<1>1. 0 \in S
  BY DEF LevelsTo
<1>2. ASSUME NEW i \in Nat, i \in S PROVE i + 1 \in S
  <2>. SUFFICES ASSUME i + 1 <= m, i + 1 <= n PROVE f[i + 1] = g[i + 1]
    OBVIOUS
  <2>1. i + 1 \in 0 .. m /\ i + 1 \in 0 .. n /\ f[i] = g[i] /\ (i + 1) - 1 = i /\ i + 1 # 0
    BY <1>2
  <2>2. f[i + 1] = Leaf \cup [Key -> f[i]]
    <3>1. f[i + 1] = IF i + 1 = 0 THEN Leaf ELSE Leaf \cup [Key -> f[(i + 1) - 1]]
      BY <2>1, Zenon DEF LevelsTo
    <3>. QED
      BY <2>1, <3>1, Zenon
  <2>3. g[i + 1] = Leaf \cup [Key -> g[i]]
    <3>1. g[i + 1] = IF i + 1 = 0 THEN Leaf ELSE Leaf \cup [Key -> g[(i + 1) - 1]]
      BY <2>1, Zenon DEF LevelsTo
    <3>. QED
      BY <2>1, <3>1, Zenon
  <2>. QED
    BY <2>1, <2>2, <2>3
<1>. HIDE DEF S
<1>3. Nat \subseteq S
  BY <1>1, <1>2, NatSetInduction
<1>. QED
  BY <1>3 DEF S

\* Some function defines them.
LEMMA LevelsExist == \A n \in Nat : \E f : LevelsTo(n, f)
<1>. DEFINE S == {n \in Nat : \E f : LevelsTo(n, f)}
<1>1. 0 \in S
  <2>1. LevelsTo(0, [i \in 0 .. 0 |-> Leaf])
    BY DEF LevelsTo
  <2>. QED
    BY <2>1
<1>2. ASSUME NEW n \in Nat, n \in S PROVE n + 1 \in S
  <2>1. PICK f : LevelsTo(n, f)
    BY <1>2
  <2>. DEFINE g == [i \in 0 .. n + 1 |-> IF i = 0 THEN Leaf ELSE Leaf \cup [Key -> f[i - 1]]]
  <2>2. ASSUME NEW i \in 0 .. n PROVE g[i] = f[i]
    <3>1. f[i] = IF i = 0 THEN Leaf ELSE Leaf \cup [Key -> f[i - 1]]
      BY <2>1, Zenon DEF LevelsTo
    <3>. QED
      BY <3>1
  <2>3. ASSUME NEW i \in 0 .. n + 1
        PROVE  g[i] = IF i = 0 THEN Leaf ELSE Leaf \cup [Key -> g[i - 1]]
    <3>1. i # 0 => i - 1 \in 0 .. n
      OBVIOUS
    <3>2. i # 0 => g[i - 1] = f[i - 1]
      BY <2>2, <3>1
    <3>. QED
      BY <3>2
  <2>4. LevelsTo(n + 1, g)
    BY <2>3 DEF LevelsTo
  <2>. QED
    BY <2>4
<1>. HIDE DEF S
<1>3. Nat \subseteq S
  BY <1>1, <1>2, NatSetInduction
<1>. QED
  BY <1>3 DEF S

\* TreesTo is what its definition says, level by level.
LEMMA TreesToDef ==
  /\ TreesTo[0] = Leaf
  /\ \A n \in Nat : TreesTo[n + 1] = Leaf \cup [Key -> TreesTo[n]]
<1>. DEFINE L(n) == CHOOSE f : LevelsTo(n, f)
            F == [n \in Nat |-> L(n)[n]]
<1>1. ASSUME NEW n \in Nat PROVE LevelsTo(n, L(n))
  BY LevelsExist
<1>. HIDE DEF L
<1>2. ASSUME NEW n \in Nat
      PROVE  F[n] = IF n = 0 THEN Leaf ELSE Leaf \cup [Key -> F[n - 1]]
  <2>1. CASE n = 0
    BY <2>1, <1>1 DEF LevelsTo
  <2>2. CASE n # 0
    <3>1. n - 1 \in Nat /\ n \in 0 .. n /\ n - 1 \in 0 .. n - 1 /\ n - 1 <= n
      BY <2>2
    <3>2. LevelsTo(n, L(n)) /\ LevelsTo(n - 1, L(n - 1))
      BY <1>1, <3>1
    <3>3. L(n)[n] = Leaf \cup [Key -> L(n)[n - 1]]
      BY <2>2, <3>1, <3>2 DEF LevelsTo
    <3>4. L(n - 1)[n - 1] = L(n)[n - 1]
      BY <3>1, <3>2, LevelsUnique
    <3>. QED
      BY <2>2, <3>1, <3>3, <3>4
  <2>. QED
    BY <2>1, <2>2
<1>3. F = [n \in Nat |-> IF n = 0 THEN Leaf ELSE Leaf \cup [Key -> F[n - 1]]]
  BY <1>2
<1>. HIDE DEF F
<1>4. TreesTo = [n \in Nat |-> IF n = 0 THEN Leaf ELSE Leaf \cup [Key -> TreesTo[n - 1]]]
  BY <1>3, Zenon DEF TreesTo
<1>5. ASSUME NEW n \in Nat
      PROVE  TreesTo[n] = IF n = 0 THEN Leaf ELSE Leaf \cup [Key -> TreesTo[n - 1]]
  BY <1>4, Zenon
<1>6. ASSUME NEW n \in Nat
      PROVE  n + 1 \in Nat /\ n + 1 # 0 /\ (n + 1) - 1 = n
  OBVIOUS
<1>7. ASSUME NEW n \in Nat
      PROVE  TreesTo[n + 1] = Leaf \cup [Key -> TreesTo[n]]
  BY <1>5, <1>6
<1>8. TreesTo[0] = Leaf
  BY <1>5
<1>. QED
  BY <1>7, <1>8

\* Every level has the leaves.
LEMMA LeavesEverywhere == \A n \in Nat : Leaf \subseteq TreesTo[n]
<1>1. ASSUME NEW n \in Nat, n # 0 PROVE Leaf \subseteq TreesTo[n]
  <2>1. n - 1 \in Nat /\ (n - 1) + 1 = n
    BY <1>1
  <2>. QED
    BY <2>1, TreesToDef
<1>. QED
  BY <1>1, TreesToDef

\* The trees are the level above Depth.
LEMMA TreeIsLevel == Tree = TreesTo[Depth + 1] /\ Map = [Key -> TreesTo[Depth]]
  BY TreesToDef, TreeAssumption DEF Tree, Map

\* Each level holds the one below.
LEMMA LevelsGrow ==
  \A n \in Nat : n <= Depth => TreesTo[n] \subseteq TreesTo[n + 1] /\ TreesTo[n] \subseteq TreesTo[Depth]
<1>. DEFINE S == {n \in Nat : TreesTo[n] \subseteq TreesTo[n + 1]}
            U == {d \in Nat : d <= Depth => TreesTo[Depth - d] \subseteq TreesTo[Depth]}
<1>1. 0 \in S
  BY TreesToDef
<1>2. ASSUME NEW n \in Nat, n \in S PROVE n + 1 \in S
  <2>1. [Key -> TreesTo[n]] \subseteq [Key -> TreesTo[n + 1]]
    BY <1>2
  <2>2. n + 1 \in Nat
    OBVIOUS
  <2>3. TreesTo[n + 1] = Leaf \cup [Key -> TreesTo[n]]
    BY TreesToDef
  <2>4. TreesTo[(n + 1) + 1] = Leaf \cup [Key -> TreesTo[n + 1]]
    BY <2>2, TreesToDef
  <2>. QED
    BY <2>1, <2>2, <2>3, <2>4
<1>. HIDE DEF S
<1>3. Nat \subseteq S
  BY <1>1, <1>2, NatSetInduction
<1>4. 0 \in U
  BY TreeAssumption
<1>5. ASSUME NEW d \in Nat, d \in U PROVE d + 1 \in U
  <2>. SUFFICES ASSUME d + 1 <= Depth PROVE TreesTo[Depth - (d + 1)] \subseteq TreesTo[Depth]
    OBVIOUS
  <2>1. Depth - (d + 1) \in Nat /\ (Depth - (d + 1)) + 1 = Depth - d /\ d <= Depth
    BY TreeAssumption
  <2>. QED
    BY <2>1, <1>3, <1>5 DEF S
<1>. HIDE DEF U
<1>6. Nat \subseteq U
  BY <1>4, <1>5, NatSetInduction
<1>7. ASSUME NEW n \in Nat, n <= Depth PROVE TreesTo[n] \subseteq TreesTo[Depth]
  <2>1. Depth - n \in Nat /\ Depth - (Depth - n) = n /\ Depth - n <= Depth
    BY <1>7, TreeAssumption
  <2>. QED
    BY <2>1, <1>6 DEF U
<1>. QED
  BY <1>3, <1>7 DEF S

\* A map is no leaf, and its entries are trees.
LEMMA MapsAndLeaves ==
  /\ \A v \in Leaf : v \in Tree /\ ~IsMap(v) /\ v \notin Map
  /\ \A v \in Map : v \in Tree /\ IsMap(v) /\ v \notin Leaf /\ v # Nowhere
                    /\ \A k \in Key : v[k] \in Tree
  /\ \A v \in Tree : IsMap(v) <=> v \in Map
  /\ Nowhere \notin Tree /\ ~IsMap(Nowhere)
<1>1. TreesTo[Depth] \subseteq Tree
  BY LevelsGrow, TreeIsLevel, TreeAssumption
<1>2. ASSUME NEW v \in Map, NEW k \in Key PROVE v[k] \in Tree
  BY <1>1, TreeIsLevel
<1>. QED
  BY <1>2, TreeAssumption DEF Tree, IsMap

\* The empty tree is a map.
LEMMA EmptyTreeIsMap == EmptyTree \in Map /\ IsMap(EmptyTree)
<1>1. Leaf \subseteq TreesTo[Depth]
  <2>1. Leaf \subseteq TreesTo[0]
    BY TreesToDef
  <2>. QED
    BY <2>1, LevelsGrow, TreeAssumption
<1>2. EmptyTree \in Map
  BY <1>1 DEF EmptyTree, Map, Leaf
<1>. QED
  BY <1>2, MapsAndLeaves

\* Induction on trees, for a set.
LEMMA TreeInduction ==
  ASSUME NEW S, Leaf \subseteq S,
         \A t \in Map : (\A k \in Key : t[k] \in S) => t \in S
  PROVE  Tree \subseteq S
<1>. DEFINE U == {n \in Nat : n <= Depth + 1 => TreesTo[n] \subseteq S}
<1>1. 0 \in U
  BY TreesToDef
<1>2. ASSUME NEW n \in Nat, n \in U PROVE n + 1 \in U
  <2>. SUFFICES ASSUME n + 1 <= Depth + 1, NEW t \in TreesTo[n + 1] PROVE t \in S
    OBVIOUS
  <2>1. n <= Depth /\ n <= Depth + 1
    BY TreeAssumption
  <2>2. t \in Leaf \/ t \in [Key -> TreesTo[n]]
    BY TreesToDef
  <2>3. TreesTo[n] \subseteq S /\ TreesTo[n] \subseteq TreesTo[Depth]
    BY <1>2, <2>1, LevelsGrow
  <2>4. ASSUME t \in [Key -> TreesTo[n]] PROVE t \in Map /\ \A k \in Key : t[k] \in S
    BY <2>3, <2>4, TreeIsLevel
  <2>. QED
    BY <2>2, <2>4
<1>. HIDE DEF U
<1>3. Nat \subseteq U
  BY <1>1, <1>2, NatSetInduction
<1>4. Depth + 1 \in Nat /\ Depth + 1 <= Depth + 1
  BY TreeAssumption
<1>. QED
  BY <1>3, <1>4, TreeIsLevel DEF U

\* What an induction on depth steps through: a map no deeper than n + 1.
LEMMA EntriesAreShallower ==
  ASSUME NEW n \in Nat, n <= Depth
  PROVE  /\ TreesTo[n] \subseteq TreesTo[n + 1]
         /\ TreesTo[n + 1] \subseteq Tree
         /\ \A t \in TreesTo[n + 1] : IsMap(t) => \A k \in Key : t[k] \in TreesTo[n]
<1>1. [Key -> TreesTo[n]] \subseteq Map
  BY LevelsGrow, TreeIsLevel
<1>2. TreesTo[n + 1] = Leaf \cup [Key -> TreesTo[n]]
  BY TreesToDef
<1>. QED
  BY <1>1, <1>2, LevelsGrow, MapsAndLeaves DEF Tree

-----------------------------------------------------------------------------
(* The recursive operators do what their definitions say.                  *)

\* Rewrite, unfolded once.
LEMMA RewriteDef ==
  ASSUME NEW v \in Tree, NEW f
  PROVE  Rewrite(v, f) = IF IsMap(v) THEN [k \in Key |-> Rewrite(v[k], f)]
                         ELSE IF v \in DOMAIN f THEN f[v] ELSE v
<1>. DEFINE Step(c, t) == IF IsMap(t) THEN [k \in Key |-> c[t[k]]]
                          ELSE IF t \in DOMAIN f THEN f[t] ELSE t
            S == {n \in Nat : n <= Depth + 1 =>
                                \E c : c = [t \in TreesTo[n] |-> Step(c, t)]}
<1>1. 0 \in S
  <2>. DEFINE c == [t \in Leaf |-> Step(<<>>, t)]
  <2>1. c = [t \in Leaf |-> Step(c, t)]
    BY MapsAndLeaves
  <2>. QED
    BY <2>1, TreesToDef
<1>2. ASSUME NEW n \in Nat, n \in S PROVE n + 1 \in S
  <2>. SUFFICES ASSUME n + 1 <= Depth + 1
                PROVE  \E c : c = [t \in TreesTo[n + 1] |-> Step(c, t)]
    OBVIOUS
  <2>1. n <= Depth /\ n <= Depth + 1
    BY TreeAssumption
  <2>2. PICK c : c = [t \in TreesTo[n] |-> Step(c, t)]
    BY <1>2, <2>1
  <2>. DEFINE d == [t \in TreesTo[n + 1] |-> Step(c, t)]
  <2>3. ASSUME NEW t \in TreesTo[n] PROVE d[t] = c[t]
    <3>1. c[t] = Step(c, t)
      BY <2>2, Zenon
    <3>2. t \in TreesTo[n + 1]
      BY <2>1, EntriesAreShallower
    <3>. QED
      BY <3>1, <3>2
  <2>4. ASSUME NEW t \in TreesTo[n + 1] PROVE d[t] = Step(d, t)
    <3>1. IsMap(t) => \A k \in Key : d[t[k]] = c[t[k]]
      BY <2>1, <2>3, EntriesAreShallower
    <3>2. d[t] = Step(c, t)
      OBVIOUS
    <3>. HIDE DEF d
    <3>. QED
      BY <3>1, <3>2
  <2>5. d = [t \in TreesTo[n + 1] |-> Step(d, t)]
    BY <2>4
  <2>. QED
    BY <2>5
<1>. HIDE DEF S
<1>3. Nat \subseteq S
  BY <1>1, <1>2, NatSetInduction
<1>4. PICK c : c = [t \in Tree |-> Step(c, t)]
  BY <1>3, TreeAssumption, TreeIsLevel DEF S
<1>. DEFINE copy == CHOOSE d : d = [t \in Tree |-> Step(d, t)]
<1>5. copy = [t \in Tree |-> Step(copy, t)]
  BY <1>4, Zenon
<1>6. ASSUME NEW t \in Tree PROVE copy[t] = Step(copy, t) /\ Rewrite(t, f) = copy[t]
  BY <1>5, Zenon DEF Rewrite
<1>. HIDE DEF copy
<1>7. Rewrite(v, f) = Step(copy, v)
  BY <1>6
<1>8. ASSUME IsMap(v) PROVE [k \in Key |-> copy[v[k]]] = [k \in Key |-> Rewrite(v[k], f)]
  BY <1>6, <1>8, MapsAndLeaves
<1>. QED
  BY <1>7, <1>8

\* AtomsOf, unfolded once.
LEMMA AtomsOfDef ==
  ASSUME NEW v \in Tree
  PROVE  AtomsOf(v) = IF IsMap(v) THEN UNION {AtomsOf(v[k]) : k \in Key} ELSE {v} \cap Atom
<1>. DEFINE Step(c, t) == IF IsMap(t) THEN UNION {c[t[k]] : k \in Key} ELSE {t} \cap Atom
            S == {n \in Nat : n <= Depth + 1 =>
                                \E c : c = [t \in TreesTo[n] |-> Step(c, t)]}
<1>1. 0 \in S
  <2>. DEFINE c == [t \in Leaf |-> Step(<<>>, t)]
  <2>1. c = [t \in Leaf |-> Step(c, t)]
    BY MapsAndLeaves
  <2>. QED
    BY <2>1, TreesToDef
<1>2. ASSUME NEW n \in Nat, n \in S PROVE n + 1 \in S
  <2>. SUFFICES ASSUME n + 1 <= Depth + 1
                PROVE  \E c : c = [t \in TreesTo[n + 1] |-> Step(c, t)]
    OBVIOUS
  <2>1. n <= Depth /\ n <= Depth + 1
    BY TreeAssumption
  <2>2. PICK c : c = [t \in TreesTo[n] |-> Step(c, t)]
    BY <1>2, <2>1
  <2>. DEFINE d == [t \in TreesTo[n + 1] |-> Step(c, t)]
  <2>3. ASSUME NEW t \in TreesTo[n] PROVE d[t] = c[t]
    <3>1. c[t] = Step(c, t)
      BY <2>2, Zenon
    <3>2. t \in TreesTo[n + 1]
      BY <2>1, EntriesAreShallower
    <3>. QED
      BY <3>1, <3>2
  <2>4. ASSUME NEW t \in TreesTo[n + 1] PROVE d[t] = Step(d, t)
    <3>1. IsMap(t) => \A k \in Key : d[t[k]] = c[t[k]]
      BY <2>1, <2>3, EntriesAreShallower
    <3>2. d[t] = Step(c, t)
      OBVIOUS
    <3>. HIDE DEF d
    <3>3. ASSUME IsMap(t) PROVE {c[t[k]] : k \in Key} = {d[t[k]] : k \in Key}
      BY <3>1, <3>3
    <3>4. Step(c, t) = Step(d, t)
      BY <3>3
    <3>. QED
      BY <3>2, <3>4
  <2>5. d = [t \in TreesTo[n + 1] |-> Step(d, t)]
    BY <2>4
  <2>. QED
    BY <2>5
<1>. HIDE DEF S
<1>3. Nat \subseteq S
  BY <1>1, <1>2, NatSetInduction
<1>4. PICK c : c = [t \in Tree |-> Step(c, t)]
  <2>. HIDE DEF Step
  <2>. QED
    BY <1>3, TreeAssumption, TreeIsLevel DEF S
<1>. DEFINE copy == CHOOSE d : d = [t \in Tree |-> Step(d, t)]
<1>5. copy = [t \in Tree |-> Step(copy, t)]
  BY <1>4, Zenon
<1>6. ASSUME NEW t \in Tree PROVE copy[t] = Step(copy, t) /\ AtomsOf(t) = copy[t]
  BY <1>5, Zenon DEF AtomsOf
<1>. HIDE DEF copy
<1>7. AtomsOf(v) = Step(copy, v)
  BY <1>6
<1>8. ASSUME IsMap(v) PROVE {copy[v[k]] : k \in Key} = {AtomsOf(v[k]) : k \in Key}
  <2>1. ASSUME NEW k \in Key PROVE copy[v[k]] = AtomsOf(v[k])
    BY <1>6, <1>8, MapsAndLeaves
  <2>. QED
    BY <2>1
<1>. QED
  BY <1>7, <1>8

\* DeepMerge, unfolded once.
LEMMA DeepMergeDef ==
  ASSUME NEW base \in Map, NEW override \in Map
  PROVE  DeepMerge(base, override) =
           [k \in Key |->
              IF override[k] = Absent THEN base[k]
              ELSE IF IsMap(base[k]) /\ IsMap(override[k])
                   THEN DeepMerge(base[k], override[k])
              ELSE override[k]]
<1>. DEFINE Step(c, b) ==
              [o \in Map |->
                 [k \in Key |->
                    IF o[k] = Absent THEN b[k]
                    ELSE IF IsMap(b[k]) /\ IsMap(o[k]) THEN c[b[k]][o[k]]
                    ELSE o[k]]]
            To(n) == [Key -> TreesTo[n]]
            S == {n \in Nat : n <= Depth => \E c : c = [b \in To(n) |-> Step(c, b)]}
<1>0. ASSUME NEW n \in Nat, n + 1 <= Depth
      PROVE  /\ To(n) \subseteq To(n + 1)
             /\ \A b \in To(n + 1), k \in Key : IsMap(b[k]) => b[k] \in To(n)
  <2>1. n <= Depth /\ TreesTo[n] \subseteq TreesTo[n + 1]
    BY <1>0, TreeAssumption, LevelsGrow
  <2>2. TreesTo[n + 1] = Leaf \cup To(n)
    BY TreesToDef
  <2>. QED
    BY <2>1, <2>2, MapsAndLeaves
<1>1. 0 \in S
  <2>. DEFINE c == [b \in To(0) |-> Step(<<>>, b)]
  <2>1. ASSUME NEW b \in To(0), NEW k \in Key PROVE ~IsMap(b[k])
    BY TreesToDef, MapsAndLeaves
  <2>2. ASSUME NEW b \in To(0) PROVE Step(<<>>, b) = Step(c, b)
    <3>. HIDE DEF c
    <3>. QED
      BY <2>1
  <2>3. c = [b \in To(0) |-> Step(c, b)]
    BY <2>2
  <2>. QED
    BY <2>3
<1>2. ASSUME NEW n \in Nat, n \in S PROVE n + 1 \in S
  <2>. SUFFICES ASSUME n + 1 <= Depth
                PROVE  \E c : c = [b \in To(n + 1) |-> Step(c, b)]
    <3>. HIDE DEF Step, To
    <3>. QED
      OBVIOUS
  <2>1. n <= Depth
    BY TreeAssumption
  <2>2. PICK c : c = [b \in To(n) |-> Step(c, b)]
    BY <1>2, <2>1
  <2>. DEFINE d == [b \in To(n + 1) |-> Step(c, b)]
  <2>3. ASSUME NEW b \in To(n) PROVE d[b] = c[b]
    <3>1. c[b] = Step(c, b)
      BY <2>2, Zenon
    <3>2. b \in To(n + 1)
      BY <1>0
    <3>3. d[b] = Step(c, b)
      BY <3>2, Zenon
    <3>. QED
      BY <3>1, <3>3
  <2>. HIDE DEF d
  <2>4. ASSUME NEW b \in To(n + 1) PROVE Step(c, b) = Step(d, b)
    <3>1. \A k \in Key : IsMap(b[k]) => d[b[k]] = c[b[k]]
      BY <1>0, <2>3
    <3>. QED
      BY <3>1
  <2>. HIDE DEF Step
  <2>5. d = [b \in To(n + 1) |-> Step(d, b)]
    BY <2>4, Zenon DEF d
  <2>6. \E e : e = [b \in To(n + 1) |-> Step(e, b)]
    BY <2>5
  <2>. QED
    BY <2>6
<1>. HIDE DEF S
<1>3. Nat \subseteq S
  BY <1>1, <1>2, NatSetInduction
<1>4. \E c : c = [b \in Map |-> Step(c, b)]
  <2>1. Depth \in S /\ Map = To(Depth)
    BY <1>3, TreeAssumption, TreeIsLevel
  <2>. HIDE DEF Step, To
  <2>2. \E c : c = [b \in To(Depth) |-> Step(c, b)]
    BY <2>1, TreeAssumption DEF S
  <2>. QED
    BY <2>1, <2>2
<1>. DEFINE merge == CHOOSE d : d = [b \in Map |-> Step(d, b)]
<1>5. merge = [b \in Map |-> Step(merge, b)]
  BY <1>4, Zenon
<1>6. ASSUME NEW b \in Map PROVE merge[b] = Step(merge, b)
  BY <1>5, Zenon
<1>7. ASSUME NEW b \in Map, NEW o \in Map PROVE DeepMerge(b, o) = merge[b][o]
  BY Zenon DEF DeepMerge
<1>. HIDE DEF merge
<1>8. ASSUME NEW k \in Key, IsMap(base[k]), IsMap(override[k])
      PROVE  merge[base[k]][override[k]] = DeepMerge(base[k], override[k])
  <2>1. base[k] \in Map /\ override[k] \in Map
    BY <1>8, MapsAndLeaves
  <2>. QED
    BY <1>7, <2>1
<1>9. DeepMerge(base, override) = Step(merge, base)[override]
  <2>1. merge[base] = Step(merge, base)
    BY <1>6
  <2>2. DeepMerge(base, override) = merge[base][override]
    BY <1>7
  <2>. QED
    BY <2>1, <2>2, Zenon
<1>. QED
  BY <1>8, <1>9

-----------------------------------------------------------------------------
(* What they compute.                                                      *)

\* The merge of two maps is a map, no deeper than they are.
LEMMA DeepMergeType ==
  \A base, override \in Map : DeepMerge(base, override) \in Map
<1>. DEFINE To(n) == [Key -> TreesTo[n]]
            S == {n \in Nat : n <= Depth => \A b, o \in To(n) : DeepMerge(b, o) \in To(n)}
<1>0. ASSUME NEW n \in Nat, n <= Depth PROVE To(n) \subseteq Map
  BY <1>0, LevelsGrow, TreeIsLevel
<1>1. 0 \in S
  <2>. SUFFICES ASSUME NEW b \in To(0), NEW o \in To(0) PROVE DeepMerge(b, o) \in To(0)
    OBVIOUS
  <2>1. b \in Map /\ o \in Map
    BY <1>0, TreeAssumption
  <2>2. \A k \in Key : b[k] \in TreesTo[0] /\ o[k] \in TreesTo[0] /\ ~IsMap(b[k])
    BY TreesToDef, MapsAndLeaves
  <2>. QED
    BY <2>1, <2>2, DeepMergeDef
<1>2. ASSUME NEW n \in Nat, n \in S PROVE n + 1 \in S
  <2>. SUFFICES ASSUME n + 1 <= Depth, NEW b \in To(n + 1), NEW o \in To(n + 1)
                PROVE  DeepMerge(b, o) \in To(n + 1)
    OBVIOUS
  <2>1. n <= Depth /\ TreesTo[n + 1] = Leaf \cup To(n)
    <3>1. n <= Depth
      BY TreeAssumption
    <3>. QED
      BY <3>1, TreesToDef
  <2>2. b \in Map /\ o \in Map
    BY <1>0
  <2>3. ASSUME NEW k \in Key, IsMap(b[k]), IsMap(o[k])
        PROVE  DeepMerge(b[k], o[k]) \in TreesTo[n + 1]
    <3>1. b[k] \in To(n) /\ o[k] \in To(n)
      BY <2>1, <2>3, MapsAndLeaves
    <3>. QED
      BY <3>1, <2>1, <1>2
  <2>4. \A k \in Key : b[k] \in TreesTo[n + 1] /\ o[k] \in TreesTo[n + 1]
    OBVIOUS
  <2>. QED
    BY <2>2, <2>3, <2>4, DeepMergeDef
<1>3. Nat \subseteq S
  <2>. HIDE DEF S
  <2>. QED
    BY <1>1, <1>2, NatSetInduction
<1>4. Depth \in S /\ Map = To(Depth)
  BY <1>3, TreeAssumption, TreeIsLevel
<1>. QED
  BY <1>4, TreeAssumption

\* A copy that maps atoms to atoms has the shape of what it copies.
LEMMA RewriteType ==
  ASSUME NEW f, \A a \in DOMAIN f : f[a] \in Atom
  PROVE  \A v \in Map : Rewrite(v, f) \in Map
<1>. DEFINE S == {n \in Nat : n <= Depth => \A t \in TreesTo[n] : Rewrite(t, f) \in TreesTo[n]}
<1>0. ASSUME NEW n \in Nat, n <= Depth PROVE TreesTo[n] \subseteq Tree
  BY <1>0, EntriesAreShallower
<1>1. 0 \in S
  BY <1>0, TreesToDef, TreeAssumption, MapsAndLeaves, RewriteDef DEF Leaf
<1>2. ASSUME NEW n \in Nat, n \in S PROVE n + 1 \in S
  <2>. SUFFICES ASSUME n + 1 <= Depth, NEW t \in TreesTo[n + 1]
                PROVE  Rewrite(t, f) \in TreesTo[n + 1]
    OBVIOUS
  <2>1. n <= Depth /\ t \in Tree /\ TreesTo[n + 1] = Leaf \cup [Key -> TreesTo[n]]
    BY <1>0, TreeAssumption, TreesToDef
  <2>2. ASSUME IsMap(t) PROVE \A k \in Key : Rewrite(t[k], f) \in TreesTo[n]
    BY <1>2, <2>1, <2>2, EntriesAreShallower
  <2>3. ~IsMap(t) => Rewrite(t, f) \in Leaf
    BY <2>1, RewriteDef, MapsAndLeaves DEF Leaf, Tree
  <2>. QED
    BY <2>1, <2>2, <2>3, RewriteDef
<1>3. Nat \subseteq S
  <2>. HIDE DEF S
  <2>. QED
    BY <1>1, <1>2, NatSetInduction
<1>4. \A t \in TreesTo[Depth] : Rewrite(t, f) \in TreesTo[Depth]
  BY <1>3, TreeAssumption
<1>. QED
  BY <1>4, RewriteDef, MapsAndLeaves, TreeIsLevel

\* The atoms of a copy are the images of those of the original.
LEMMA AtomsOfRewrite ==
  ASSUME NEW f, Absent \notin DOMAIN f, \A a \in DOMAIN f : f[a] \in Atom,
         NEW v \in Map
  PROVE  AtomsOf(Rewrite(v, f)) = {IF a \in DOMAIN f THEN f[a] ELSE a : a \in AtomsOf(v)}
<1>. DEFINE Image(A) == {IF a \in DOMAIN f THEN f[a] ELSE a : a \in A}
            S == {t \in Tree : /\ Rewrite(t, f) \in Tree
                               /\ AtomsOf(Rewrite(t, f)) = Image(AtomsOf(t))}
<1>1. Leaf \subseteq S
  <2>. SUFFICES ASSUME NEW t \in Leaf PROVE t \in S
    OBVIOUS
  <2>1. t \in Tree /\ ~IsMap(t) /\ AtomsOf(t) = {t} \cap Atom
    BY MapsAndLeaves, AtomsOfDef
  <2>2. Rewrite(t, f) = IF t \in DOMAIN f THEN f[t] ELSE t
    BY <2>1, RewriteDef
  <2>3. Rewrite(t, f) \in Leaf /\ Rewrite(t, f) \in Tree /\ ~IsMap(Rewrite(t, f))
    BY <2>2, MapsAndLeaves DEF Leaf
  <2>4. AtomsOf(Rewrite(t, f)) = {Rewrite(t, f)} \cap Atom
    BY <2>3, AtomsOfDef
  <2>. QED
    BY <2>1, <2>2, <2>3, <2>4, TreeAssumption DEF Leaf
<1>2. ASSUME NEW t \in Map, \A k \in Key : t[k] \in S PROVE t \in S
  <2>1. t \in Tree /\ IsMap(t)
    BY MapsAndLeaves
  <2>2. Rewrite(t, f) \in Map
    BY RewriteType
  <2>3. Rewrite(t, f) = [k \in Key |-> Rewrite(t[k], f)]
    BY <2>1, RewriteDef
  <2>4. Rewrite(t, f) \in Tree /\ IsMap(Rewrite(t, f))
    BY <2>2, MapsAndLeaves
  <2>5. AtomsOf(Rewrite(t, f)) = UNION {AtomsOf(Rewrite(t, f)[k]) : k \in Key}
    BY <2>4, AtomsOfDef
  <2>6. AtomsOf(t) = UNION {AtomsOf(t[k]) : k \in Key}
    BY <2>1, AtomsOfDef
  <2>7. ASSUME NEW k \in Key PROVE AtomsOf(Rewrite(t, f)[k]) = Image(AtomsOf(t[k]))
    BY <1>2, <2>3
  <2>. HIDE DEF Image
  <2>8. {AtomsOf(Rewrite(t, f)[k]) : k \in Key} = {Image(AtomsOf(t[k])) : k \in Key}
    BY <2>7
  <2>9. UNION {Image(AtomsOf(t[k])) : k \in Key} = Image(UNION {AtomsOf(t[k]) : k \in Key})
    BY DEF Image
  <2>. QED
    BY <2>1, <2>4, <2>5, <2>6, <2>8, <2>9
<1>. HIDE DEF S
<1>3. Tree \subseteq S
  BY <1>1, <1>2, TreeInduction
<1>. QED
  BY <1>3, MapsAndLeaves DEF S

\* A merge makes no atom up.
LEMMA AtomsOfDeepMerge ==
  \A base, override \in Map :
     AtomsOf(DeepMerge(base, override)) \subseteq AtomsOf(base) \cup AtomsOf(override)
<1>. DEFINE S == {t \in Tree : t \in Map => \A o \in Map :
                     AtomsOf(DeepMerge(t, o)) \subseteq AtomsOf(t) \cup AtomsOf(o)}
<1>1. Leaf \subseteq S
  BY MapsAndLeaves
<1>2. ASSUME NEW t \in Map, \A k \in Key : t[k] \in S PROVE t \in S
  <2>. SUFFICES ASSUME NEW o \in Map, NEW a \in AtomsOf(DeepMerge(t, o))
                PROVE  a \in AtomsOf(t) \cup AtomsOf(o)
    BY MapsAndLeaves
  <2>. DEFINE m == DeepMerge(t, o)
  <2>1. m \in Map
    BY DeepMergeType
  <2>2. /\ AtomsOf(m) = UNION {AtomsOf(m[k]) : k \in Key}
        /\ AtomsOf(t) = UNION {AtomsOf(t[k]) : k \in Key}
        /\ AtomsOf(o) = UNION {AtomsOf(o[k]) : k \in Key}
    BY <2>1, MapsAndLeaves, AtomsOfDef
  <2>3. PICK k \in Key : a \in AtomsOf(m[k])
    BY <2>2
  <2>4. AtomsOf(m[k]) \subseteq AtomsOf(t[k]) \cup AtomsOf(o[k])
    <3>1. m[k] = IF o[k] = Absent THEN t[k]
                 ELSE IF IsMap(t[k]) /\ IsMap(o[k]) THEN DeepMerge(t[k], o[k]) ELSE o[k]
      BY DeepMergeDef
    <3>2. IsMap(t[k]) /\ IsMap(o[k]) => t[k] \in Map /\ o[k] \in Map
      BY MapsAndLeaves
    <3>. HIDE DEF m
    <3>. QED
      BY <3>1, <3>2, <1>2
  <2>. QED
    BY <2>2, <2>3, <2>4
<1>. HIDE DEF S
<1>3. Tree \subseteq S
  BY <1>1, <1>2, TreeInduction
<1>. QED
  BY <1>3, MapsAndLeaves DEF S

-----------------------------------------------------------------------------
(* What a tree says along a path.                                          *)

\* NodesAlong, unfolded once.
LEMMA NodesAlongDef ==
  ASSUME NEW v, NEW p \in Seq(Key)
  PROVE  /\ NodesAlong(v, p)[0] = v
         /\ \A n \in 0 .. Len(p) - 1 :
               NodesAlong(v, p)[n + 1] =
                 IF IsMap(NodesAlong(v, p)[n]) THEN NodesAlong(v, p)[n][p[n + 1]]
                 ELSE IF NodesAlong(v, p)[n] = Absent THEN Absent ELSE Nowhere
<1>. DEFINE Step(c, n) == IF n = 0 THEN v
                          ELSE IF IsMap(c[n - 1]) THEN c[n - 1][p[n]]
                          ELSE IF c[n - 1] = Absent THEN Absent ELSE Nowhere
            S == {m \in Nat : \E c : c = [n \in 0 .. m |-> Step(c, n)]}
<1>1. 0 \in S
  <2>. DEFINE c == [n \in 0 .. 0 |-> v]
  <2>1. c = [n \in 0 .. 0 |-> Step(c, n)]
    OBVIOUS
  <2>. HIDE DEF Step
  <2>. QED
    BY <2>1
<1>2. ASSUME NEW m \in Nat, m \in S PROVE m + 1 \in S
  <2>1. PICK c : c = [n \in 0 .. m |-> Step(c, n)]
    <3>. HIDE DEF Step
    <3>. QED
      BY <1>2
  <2>. DEFINE d == [n \in 0 .. m + 1 |-> Step(c, n)]
  <2>2. ASSUME NEW n \in 0 .. m PROVE d[n] = c[n]
    <3>1. c[n] = Step(c, n)
      BY <2>1, Zenon
    <3>. HIDE DEF Step
    <3>. QED
      BY <3>1
  <2>. HIDE DEF d
  <2>3. ASSUME NEW n \in 0 .. m + 1 PROVE Step(c, n) = Step(d, n)
    <3>1. n # 0 => n - 1 \in 0 .. m
      OBVIOUS
    <3>. QED
      BY <2>2, <3>1
  <2>. HIDE DEF Step
  <2>4. d = [n \in 0 .. m + 1 |-> Step(d, n)]
    BY <2>3 DEF d
  <2>. QED
    BY <2>4
<1>3. Nat \subseteq S
  <2>. HIDE DEF S
  <2>. QED
    BY <1>1, <1>2, NatSetInduction
<1>4. \E c : c = [n \in 0 .. Len(p) |-> Step(c, n)]
  <2>. HIDE DEF Step
  <2>. QED
    BY <1>3
<1>. DEFINE at == CHOOSE c : c = [n \in 0 .. Len(p) |-> Step(c, n)]
<1>5. at = [n \in 0 .. Len(p) |-> Step(at, n)]
  BY <1>4, Zenon
<1>6. NodesAlong(v, p) = at
  BY Zenon DEF NodesAlong
<1>7. ASSUME NEW n \in 0 .. Len(p) PROVE NodesAlong(v, p)[n] = Step(NodesAlong(v, p), n)
  BY <1>5, <1>6, Zenon
<1>8. 0 \in 0 .. Len(p)
  OBVIOUS
<1>9. ASSUME NEW n \in 0 .. Len(p) - 1
      PROVE  n + 1 \in 0 .. Len(p) /\ n + 1 # 0 /\ (n + 1) - 1 = n
  OBVIOUS
<1>. QED
  BY <1>7, <1>8, <1>9

\* A path leads to a tree, or Nowhere.
LEMMA NodesAlongType ==
  ASSUME NEW v \in Tree, NEW p \in Seq(Key)
  PROVE  \A n \in 0 .. Len(p) : NodesAlong(v, p)[n] \in Tree \cup {Nowhere}
<1>. DEFINE at == NodesAlong(v, p)
            S == {n \in Nat : n <= Len(p) => at[n] \in Tree \cup {Nowhere}}
<1>. HIDE DEF at
<1>1. 0 \in S
  BY NodesAlongDef DEF at
<1>2. ASSUME NEW n \in Nat, n \in S PROVE n + 1 \in S
  <2>. SUFFICES ASSUME n + 1 <= Len(p) PROVE at[n + 1] \in Tree \cup {Nowhere}
    OBVIOUS
  <2>1. n \in 0 .. Len(p) - 1 /\ n <= Len(p) /\ n + 1 \in 1 .. Len(p)
    OBVIOUS
  <2>2. at[n + 1] = IF IsMap(at[n]) THEN at[n][p[n + 1]]
                    ELSE IF at[n] = Absent THEN Absent ELSE Nowhere
    BY <2>1, NodesAlongDef DEF at
  <2>3. at[n] \in Tree \cup {Nowhere} /\ p[n + 1] \in Key
    BY <1>2, <2>1
  <2>. QED
    BY <2>2, <2>3, MapsAndLeaves DEF Leaf
<1>3. Nat \subseteq S
  <2>. HIDE DEF S
  <2>. QED
    BY <1>1, <1>2, NatSetInduction
<1>. QED
  BY <1>3 DEF at

\* Where the merge m of b and o leads, when b and o lead to those.
MergedNode(m, b, o) ==
  /\ o = Absent => m = b \/ (b = Nowhere /\ m = Absent)
  /\ o \in Atom \cup {Nowhere} => m = o
  /\ IsMap(o) => m = IF IsMap(b) THEN DeepMerge(b, o) ELSE o

\* Along every path the override decides, where it says anything.
LEMMA DeepMergeAlong ==
  ASSUME NEW base \in Map, NEW override \in Map, NEW p \in Seq(Key)
  PROVE  MergedNode(NodeAt(DeepMerge(base, override), p), NodeAt(base, p), NodeAt(override, p))
<1>. DEFINE m == NodesAlong(DeepMerge(base, override), p)
            b == NodesAlong(base, p)
            o == NodesAlong(override, p)
            S == {n \in Nat : n <= Len(p) => MergedNode(m[n], b[n], o[n])}
<1>0. DeepMerge(base, override) \in Map
  BY DeepMergeType
<1>. HIDE DEF m, b, o
<1>1. 0 \in S
  <2>1. m[0] = DeepMerge(base, override) /\ b[0] = base /\ o[0] = override
    BY NodesAlongDef DEF m, b, o
  <2>. QED
    BY <2>1, MapsAndLeaves DEF MergedNode, Leaf
<1>2. ASSUME NEW n \in Nat, n \in S PROVE n + 1 \in S
  <2>. SUFFICES ASSUME n + 1 <= Len(p) PROVE MergedNode(m[n + 1], b[n + 1], o[n + 1])
    OBVIOUS
  <2>1. n \in 0 .. Len(p) - 1 /\ n \in 0 .. Len(p) /\ p[n + 1] \in Key
    OBVIOUS
  <2>. DEFINE k == p[n + 1]
              StepDown(w) == IF IsMap(w) THEN w[k] ELSE IF w = Absent THEN Absent ELSE Nowhere
  <2>2. m[n + 1] = StepDown(m[n]) /\ b[n + 1] = StepDown(b[n]) /\ o[n + 1] = StepDown(o[n])
    BY <2>1, NodesAlongDef DEF m, b, o
  <2>3. MergedNode(m[n], b[n], o[n])
    BY <1>2, <2>1
  <2>4. b[n] \in Tree \cup {Nowhere} /\ o[n] \in Tree \cup {Nowhere}
    BY <2>1, MapsAndLeaves, NodesAlongType DEF b, o
  <2>5. CASE IsMap(o[n]) /\ IsMap(b[n])
    <3>1. b[n] \in Map /\ o[n] \in Map /\ m[n] = DeepMerge(b[n], o[n])
      BY <2>3, <2>4, <2>5, MapsAndLeaves DEF MergedNode
    <3>2. m[n] \in Map /\ b[n][k] \in Tree /\ o[n][k] \in Tree
      BY <2>1, <3>1, DeepMergeType, MapsAndLeaves
    <3>3. m[n][k] = IF o[n][k] = Absent THEN b[n][k]
                    ELSE IF IsMap(b[n][k]) /\ IsMap(o[n][k])
                         THEN DeepMerge(b[n][k], o[n][k]) ELSE o[n][k]
      BY <2>1, <3>1, DeepMergeDef
    <3>4. m[n + 1] = m[n][k] /\ b[n + 1] = b[n][k] /\ o[n + 1] = o[n][k]
      BY <2>2, <2>5, <3>2, MapsAndLeaves
    <3>. QED
      BY <3>2, <3>3, <3>4, MapsAndLeaves, TreeAssumption DEF MergedNode, Leaf
  <2>6. CASE IsMap(o[n]) /\ ~IsMap(b[n])
    <3>1. m[n] = o[n] /\ b[n + 1] \in {Absent, Nowhere}
      BY <2>2, <2>3, <2>6 DEF MergedNode
    <3>2. ~IsMap(b[n + 1])
      BY <3>1, MapsAndLeaves DEF Leaf
    <3>3. m[n + 1] = o[n + 1]
      BY <2>2, <3>1
    <3>. QED
      BY <3>1, <3>2, <3>3 DEF MergedNode
  <2>7. CASE o[n] = Absent
    <3>1. ~IsMap(Absent) /\ Absent # Nowhere /\ ~IsMap(Nowhere)
      BY MapsAndLeaves, TreeAssumption DEF Leaf
    <3>2. o[n + 1] = Absent
      BY <2>2, <2>7, <3>1
    <3>3. m[n + 1] = b[n + 1] \/ (b[n + 1] = Nowhere /\ m[n + 1] = Absent)
      BY <2>2, <2>3, <2>7, <3>1 DEF MergedNode
    <3>. QED
      BY <3>1, <3>2, <3>3, TreeAssumption DEF MergedNode, Leaf
  <2>8. CASE o[n] \in Atom \cup {Nowhere}
    <3>1. ~IsMap(o[n]) /\ o[n] # Absent /\ m[n] = o[n]
      BY <2>3, <2>8, MapsAndLeaves, TreeAssumption DEF MergedNode, Leaf
    <3>2. o[n + 1] = Nowhere /\ m[n + 1] = Nowhere
      BY <2>2, <3>1
    <3>. QED
      BY <3>2, MapsAndLeaves, TreeAssumption DEF MergedNode, Leaf
  <2>. QED
    BY <2>4, <2>5, <2>6, <2>7, <2>8, MapsAndLeaves DEF Leaf, Tree
<1>3. Nat \subseteq S
  <2>. HIDE DEF S
  <2>. QED
    BY <1>1, <1>2, NatSetInduction
<1>. QED
  BY <1>3 DEF NodeAt, m, b, o

-----------------------------------------------------------------------------
(* Stacks of layers.                                                       *)

\* The empty tree is what no layer says anything about.
LEMMA EmptyStack ==
  ASSUME NEW p \in Seq(Key)
  PROVE  IsStackAt(EmptyTree, <<>>, UpTo(<<>>), p)
<1>. DEFINE at == NodesAlong(EmptyTree, p)
            S == {n \in Nat : 0 < n /\ n <= Len(p) => at[n] = Absent}
<1>1. 0 \in S
  OBVIOUS
<1>2. ASSUME NEW n \in Nat, n \in S PROVE n + 1 \in S
  <2>. SUFFICES ASSUME n + 1 <= Len(p) PROVE at[n + 1] = Absent
    OBVIOUS
  <2>1. n \in 0 .. Len(p) - 1 /\ p[n + 1] \in Key
    OBVIOUS
  <2>2. at[n + 1] = IF IsMap(at[n]) THEN at[n][p[n + 1]]
                    ELSE IF at[n] = Absent THEN Absent ELSE Nowhere
    BY <2>1, NodesAlongDef
  <2>3. ~IsMap(Absent)
    BY MapsAndLeaves DEF Leaf
  <2>4. n = 0 => at[n] = EmptyTree
    BY NodesAlongDef
  <2>. HIDE DEF at
  <2>5. n # 0 => at[n] = Absent
    BY <1>2
  <2>6. EmptyTree[p[n + 1]] = Absent
    BY <2>1 DEF EmptyTree
  <2>7. IsMap(EmptyTree)
    BY EmptyTreeIsMap
  <2>. QED
    BY <2>2, <2>3, <2>4, <2>5, <2>6, <2>7
<1>3. Nat \subseteq S
  <2>. HIDE DEF S
  <2>. QED
    BY <1>1, <1>2, NatSetInduction
<1>4. NodeAt(EmptyTree, p) = IF p = <<>> THEN EmptyTree ELSE Absent
  <2>1. p = <<>> <=> Len(p) = 0
    OBVIOUS
  <2>2. at[0] = EmptyTree
    BY NodesAlongDef
  <2>3. Len(p) # 0 => at[Len(p)] = Absent
    BY <1>3
  <2>. QED
    BY <2>1, <2>2, <2>3 DEF NodeAt
<1>. QED
  BY <1>4, EmptyTreeIsMap, MapsAndLeaves, TreeAssumption DEF IsStackAt, Leaf

\* A layer merged in is the last: it decides where it says anything.
LEMMA StackGrows ==
  ASSUME NEW v \in Map, NEW stack \in Seq(Map), NEW layer \in Map, NEW p \in Seq(Key),
         IsStackAt(v, stack, UpTo(stack), p)
  PROVE  IsStackAt(DeepMerge(v, layer), Append(stack, layer), UpTo(Append(stack, layer)), p)
<1>. DEFINE more == Append(stack, layer)
            n == Len(stack)
            said == [i \in DOMAIN stack |-> NodeAt(stack[i], p)]
            last == {i \in DOMAIN stack :
                       said[i] # Absent /\ \A h \in UpTo(stack)[i] : said[h] = Absent}
            said1 == [i \in DOMAIN more |-> NodeAt(more[i], p)]
            last1 == {i \in DOMAIN more :
                        said1[i] # Absent /\ \A h \in UpTo(more)[i] : said1[h] = Absent}
            b == NodeAt(v, p)
            o == NodeAt(layer, p)
            m == NodeAt(DeepMerge(v, layer), p)
<1>1. MergedNode(m, b, o)
  BY DeepMergeAlong
<1>2. o \in Tree \cup {Nowhere} /\ b \in Tree \cup {Nowhere}
  BY NodesAlongType, MapsAndLeaves DEF NodeAt
<1>3. IsMap(o) /\ IsMap(b) => IsMap(m)
  BY <1>1, <1>2, DeepMergeType, MapsAndLeaves DEF MergedNode
<1>4. /\ {b} \cap Atom = {said[i] : i \in last} \cap Atom
      /\ IsMap(b) <=> p = <<>> \/ \E i \in last : IsMap(said[i])
  BY DEF IsStackAt
<1>5. /\ DOMAIN more = 1 .. n + 1 /\ DOMAIN stack = 1 .. n /\ n \in Nat
      /\ said1[n + 1] = o
      /\ \A i \in 1 .. n : said1[i] = said[i]
      /\ UpTo(more)[n + 1] = {}
      /\ \A i \in 1 .. n : UpTo(more)[i] = UpTo(stack)[i] \cup {n + 1}
      /\ \A i \in 1 .. n : UpTo(stack)[i] \subseteq 1 .. n
  BY DEF UpTo
<1>. HIDE DEF said, said1, m, b, o, more, n
<1>6. CASE o = Absent
  <2>1. last1 = last
    BY <1>5, <1>6
  <2>2. {said1[i] : i \in last1} = {said[i] : i \in last}
    BY <2>1, <1>5
  <2>3. (\E i \in last1 : IsMap(said1[i])) <=> (\E i \in last : IsMap(said[i]))
    BY <2>1, <1>5
  <2>4. {m} \cap Atom = {b} \cap Atom /\ (IsMap(m) <=> IsMap(b))
    BY <1>1, <1>6, MapsAndLeaves, TreeAssumption DEF MergedNode, Leaf
  <2>. QED
    BY <1>4, <2>2, <2>3, <2>4 DEF IsStackAt, m, more, said1, last1
<1>7. CASE o # Absent
  <2>1. last1 = {n + 1}
    BY <1>5, <1>7
  <2>2. {said1[i] : i \in last1} = {o}
    BY <2>1, <1>5
  <2>3. (\E i \in last1 : IsMap(said1[i])) <=> IsMap(o)
    BY <2>1, <1>5
  <2>4. {m} \cap Atom = {o} \cap Atom /\ (IsMap(m) <=> IsMap(o))
    BY <1>1, <1>2, <1>3, <1>7, MapsAndLeaves, TreeAssumption DEF MergedNode, Leaf, Tree
  <2>5. p = <<>> => IsMap(o)
    <3>1. p = <<>> => Len(p) = 0
      OBVIOUS
    <3>2. NodesAlong(layer, p)[0] = layer
      BY NodesAlongDef
    <3>. QED
      BY <3>1, <3>2, MapsAndLeaves DEF NodeAt, o
  <2>. QED
    BY <2>2, <2>3, <2>4, <2>5 DEF IsStackAt, m, more, said1, last1
<1>. QED
  BY <1>6, <1>7

-----------------------------------------------------------------------------
(* The two snapshots.                                                      *)

\* MaskedCopy does what its definition says.
LEMMA MaskedCopyDef ==
  ASSUME NEW v \in Tree
  PROVE  MaskedCopy(v) = IF IsMap(v)
                         THEN [k \in Key |-> IF k \in SecretKey /\ v[k] \in Text
                                             THEN MaskedPlaceholder ELSE MaskedCopy(v[k])]
                         ELSE IF v = SecretRef THEN MaskedPlaceholder ELSE v
<1>. DEFINE Step(c, t) == IF IsMap(t)
                          THEN [k \in Key |-> IF k \in SecretKey /\ t[k] \in Text
                                              THEN MaskedPlaceholder ELSE c[t[k]]]
                          ELSE IF t = SecretRef THEN MaskedPlaceholder ELSE t
            S == {n \in Nat : n <= Depth + 1 =>
                                \E c : c = [t \in TreesTo[n] |-> Step(c, t)]}
<1>1. 0 \in S
  <2>. DEFINE c == [t \in Leaf |-> Step(<<>>, t)]
  <2>1. c = [t \in Leaf |-> Step(c, t)]
    BY MapsAndLeaves
  <2>. QED
    BY <2>1, TreesToDef
<1>2. ASSUME NEW n \in Nat, n \in S PROVE n + 1 \in S
  <2>. SUFFICES ASSUME n + 1 <= Depth + 1
                PROVE  \E c : c = [t \in TreesTo[n + 1] |-> Step(c, t)]
    OBVIOUS
  <2>1. n <= Depth /\ n <= Depth + 1
    BY TreeAssumption
  <2>2. PICK c : c = [t \in TreesTo[n] |-> Step(c, t)]
    BY <1>2, <2>1
  <2>. DEFINE d == [t \in TreesTo[n + 1] |-> Step(c, t)]
  <2>3. ASSUME NEW t \in TreesTo[n] PROVE d[t] = c[t]
    <3>1. c[t] = Step(c, t)
      BY <2>2, Zenon
    <3>2. t \in TreesTo[n + 1]
      BY <2>1, EntriesAreShallower
    <3>. QED
      BY <3>1, <3>2
  <2>4. ASSUME NEW t \in TreesTo[n + 1] PROVE d[t] = Step(d, t)
    <3>1. IsMap(t) => \A k \in Key : d[t[k]] = c[t[k]]
      BY <2>1, <2>3, EntriesAreShallower
    <3>2. d[t] = Step(c, t)
      OBVIOUS
    <3>. HIDE DEF d
    <3>. QED
      BY <3>1, <3>2
  <2>5. d = [t \in TreesTo[n + 1] |-> Step(d, t)]
    BY <2>4
  <2>. QED
    BY <2>5
<1>. HIDE DEF S
<1>3. Nat \subseteq S
  BY <1>1, <1>2, NatSetInduction
<1>4. PICK c : c = [t \in Tree |-> Step(c, t)]
  <2>. HIDE DEF Step
  <2>. QED
    BY <1>3, TreeAssumption, TreeIsLevel DEF S
<1>. DEFINE copy == CHOOSE d : d = [t \in Tree |-> Step(d, t)]
<1>5. copy = [t \in Tree |-> Step(copy, t)]
  BY <1>4, Zenon
<1>6. ASSUME NEW t \in Tree PROVE copy[t] = Step(copy, t) /\ MaskedCopy(t) = copy[t]
  BY <1>5, Zenon DEF MaskedCopy
<1>. HIDE DEF copy
<1>7. MaskedCopy(v) = Step(copy, v)
  BY <1>6
<1>8. ASSUME IsMap(v), NEW k \in Key PROVE copy[v[k]] = MaskedCopy(v[k])
  BY <1>6, <1>8, MapsAndLeaves
<1>. QED
  BY <1>7, <1>8

\* A masked copy has the shape of what it copies.
LEMMA MaskedCopyType == \A v \in Map : MaskedCopy(v) \in Map
<1>. DEFINE S == {n \in Nat : n <= Depth => \A t \in TreesTo[n] : MaskedCopy(t) \in TreesTo[n]}
<1>0. ASSUME NEW n \in Nat, n <= Depth PROVE TreesTo[n] \subseteq Tree
  BY <1>0, EntriesAreShallower
<1>1. MaskedPlaceholder \in Leaf /\ Leaf \subseteq TreesTo[0]
  BY LeafAssumption, TreesToDef DEF Leaf
<1>2. 0 \in S
  BY <1>0, <1>1, TreesToDef, TreeAssumption, MapsAndLeaves, MaskedCopyDef
<1>3. ASSUME NEW n \in Nat, n \in S PROVE n + 1 \in S
  <2>. SUFFICES ASSUME n + 1 <= Depth, NEW t \in TreesTo[n + 1]
                PROVE  MaskedCopy(t) \in TreesTo[n + 1]
    OBVIOUS
  <2>1. n <= Depth /\ t \in Tree /\ TreesTo[n + 1] = Leaf \cup [Key -> TreesTo[n]]
    BY <1>0, TreeAssumption, TreesToDef
  <2>2. ASSUME IsMap(t) PROVE \A k \in Key : MaskedCopy(t[k]) \in TreesTo[n]
    BY <1>3, <2>1, <2>2, EntriesAreShallower
  <2>3. ~IsMap(t) => MaskedCopy(t) \in Leaf
    BY <1>1, <2>1, MaskedCopyDef, MapsAndLeaves DEF Tree
  <2>4. MaskedPlaceholder \in TreesTo[n]
    BY <1>1, LeavesEverywhere
  <2>. QED
    BY <2>1, <2>2, <2>3, <2>4, MaskedCopyDef
<1>4. Nat \subseteq S
  <2>. HIDE DEF S
  <2>. QED
    BY <1>2, <1>3, NatSetInduction
<1>5. \A t \in TreesTo[Depth] : MaskedCopy(t) \in TreesTo[Depth]
  BY <1>4, TreeAssumption
<1>6. MaskedPlaceholder \in TreesTo[Depth]
  BY <1>1, LeavesEverywhere, TreeAssumption
<1>. QED
  BY <1>5, <1>6, MaskedCopyDef, MapsAndLeaves, TreeIsLevel

\* The string leaves, pair by pair.
LEMMA LeavesDiffer ==
  /\ Token # RefText /\ Token # SecretRef /\ Token # Resolved /\ Token # MaskedPlaceholder
  /\ RefText # SecretRef /\ RefText # Resolved /\ RefText # MaskedPlaceholder
  /\ SecretRef # Resolved /\ SecretRef # MaskedPlaceholder /\ Resolved # MaskedPlaceholder
<1>. DEFINE leaf == <<Token, RefText, SecretRef, Resolved, MaskedPlaceholder>>
<1>1. \A i, j \in 1 .. 5 : leaf[i] = leaf[j] => i = j
  BY LeafAssumption
<1>. QED
  BY <1>1

\* Masking the tree before the walk, and masking what the walk resolved after
\* it, come to the same.
LEMMA MaskingCommutes ==
  ASSUME NEW v \in Map, Resolved \notin AtomsOf(v)
  PROVE  MaskedCopy(v) = Rewrite(MaskedCopy(Resolution(v)),
                                 [a \in {Resolved} |-> MaskedPlaceholder])
<1>. DEFINE f == [a \in {SecretRef} |-> Resolved]
            g == [a \in {Resolved} |-> MaskedPlaceholder]
            S == {t \in Tree :
                    Resolved \notin AtomsOf(t) =>
                       /\ Rewrite(t, f) \in Tree
                       /\ MaskedCopy(Rewrite(t, f)) \in Tree
                       /\ MaskedCopy(t) = Rewrite(MaskedCopy(Rewrite(t, f)), g)}
<1>0. /\ DOMAIN f = {SecretRef} /\ f[SecretRef] = Resolved
      /\ DOMAIN g = {Resolved} /\ g[Resolved] = MaskedPlaceholder
      /\ \A a \in DOMAIN f : f[a] \in Atom
  BY LeafAssumption
<1>. HIDE DEF f, g
<1>1. Leaf \subseteq S
  <2>. SUFFICES ASSUME NEW t \in Leaf, Resolved \notin AtomsOf(t) PROVE t \in S
    BY MapsAndLeaves
  <2>1. t \in Tree /\ ~IsMap(t) /\ t # Resolved
    BY MapsAndLeaves, AtomsOfDef, LeafAssumption
  <2>2. Rewrite(t, f) = IF t = SecretRef THEN Resolved ELSE t
    BY <1>0, <2>1, RewriteDef
  <2>3. /\ Rewrite(t, f) \in Leaf /\ Rewrite(t, f) \in Tree /\ ~IsMap(Rewrite(t, f))
        /\ Rewrite(t, f) # SecretRef
    BY <2>1, <2>2, MapsAndLeaves, LeafAssumption, LeavesDiffer DEF Leaf
  <2>4. MaskedCopy(Rewrite(t, f)) = Rewrite(t, f)
    BY <2>3, MaskedCopyDef
  <2>5. Rewrite(Rewrite(t, f), g) = IF t = SecretRef THEN MaskedPlaceholder ELSE t
    BY <1>0, <2>1, <2>2, <2>3, RewriteDef
  <2>6. MaskedCopy(t) = IF t = SecretRef THEN MaskedPlaceholder ELSE t
    BY <2>1, MaskedCopyDef
  <2>. QED
    BY <2>1, <2>3, <2>4, <2>5, <2>6
<1>2. ASSUME NEW t \in Map, \A k \in Key : t[k] \in S PROVE t \in S
  <2>. SUFFICES ASSUME Resolved \notin AtomsOf(t) PROVE t \in S
    BY MapsAndLeaves
  <2>. DEFINE r == Rewrite(t, f)
              m == MaskedCopy(r)
  <2>1. t \in Tree /\ IsMap(t) /\ \A k \in Key : t[k] \in Tree
    BY MapsAndLeaves
  <2>2. r \in Map
    BY <1>0, RewriteType
  <2>3. r = [k \in Key |-> Rewrite(t[k], f)]
    BY <2>1, RewriteDef
  <2>4. m = [k \in Key |-> IF k \in SecretKey /\ r[k] \in Text
                           THEN MaskedPlaceholder ELSE MaskedCopy(r[k])]
    BY <2>2, MapsAndLeaves, MaskedCopyDef
  <2>5. m \in Map
    BY <1>0, <2>2, MaskedCopyType
  <2>6. Rewrite(m, g) = [k \in Key |-> Rewrite(m[k], g)]
    BY <2>5, MapsAndLeaves, RewriteDef
  <2>7. MaskedCopy(t) = [k \in Key |-> IF k \in SecretKey /\ t[k] \in Text
                                       THEN MaskedPlaceholder ELSE MaskedCopy(t[k])]
    BY <2>1, MaskedCopyDef
  <2>8. ASSUME NEW k \in Key
        PROVE  Rewrite(m[k], g) = IF k \in SecretKey /\ t[k] \in Text
                                  THEN MaskedPlaceholder ELSE MaskedCopy(t[k])
    <3>1. AtomsOf(t) = UNION {AtomsOf(t[j]) : j \in Key}
      BY <2>1, AtomsOfDef
    <3>2. Resolved \notin AtomsOf(t[k])
      BY <3>1
    <3>3. /\ r[k] = Rewrite(t[k], f)
          /\ MaskedCopy(t[k]) = Rewrite(MaskedCopy(r[k]), g)
      BY <1>2, <2>3, <3>2
    <3>4. m[k] = IF k \in SecretKey /\ r[k] \in Text THEN MaskedPlaceholder ELSE MaskedCopy(r[k])
      BY <2>4
    <3>5. Rewrite(MaskedPlaceholder, g) = MaskedPlaceholder
      BY <1>0, RewriteDef, MapsAndLeaves, LeafAssumption, LeavesDiffer DEF Leaf
    <3>. HIDE DEF r, m
    <3>6. CASE t[k] = SecretRef
      <4>1. t[k] \notin Text /\ ~IsMap(t[k])
        BY <3>6, LeafAssumption, MapsAndLeaves DEF Leaf
      <4>2. MaskedCopy(t[k]) = MaskedPlaceholder
        BY <2>1, <3>6, <4>1, MaskedCopyDef
      <4>. QED
        BY <3>3, <3>4, <3>5, <4>1, <4>2
    <3>7. CASE t[k] # SecretRef
      <4>1. ~IsMap(t[k]) => r[k] = t[k]
        BY <1>0, <2>1, <3>3, <3>7, RewriteDef
      <4>2. IsMap(t[k]) => r[k] \notin Text /\ t[k] \notin Text
        <5>1. ASSUME IsMap(t[k]) PROVE t[k] \in Map /\ r[k] \in Map
          BY <1>0, <2>1, <3>3, <5>1, RewriteType, MapsAndLeaves
        <5>. QED
          BY <5>1, MapsAndLeaves, LeafAssumption DEF Leaf
      <4>. QED
        BY <3>3, <3>4, <3>5, <4>1, <4>2
    <3>. QED
      BY <3>6, <3>7
  <2>9. MaskedCopy(t) = Rewrite(m, g)
    BY <2>6, <2>7, <2>8
  <2>. QED
    BY <2>1, <2>2, <2>5, <2>9, MapsAndLeaves
<1>. HIDE DEF S
<1>3. Tree \subseteq S
  BY <1>1, <1>2, TreeInduction
<1>. QED
  BY <1>3, MapsAndLeaves DEF S, f, g, Resolution

-----------------------------------------------------------------------------
(* What a source gives the merge.                                          *)

\* Replacing one atom.
LEMMA ReplaceAtom ==
  ASSUME NEW v \in Map, NEW a \in Atom, NEW b \in Atom
  PROVE  /\ Rewrite(v, [x \in {a} |-> b]) \in Map
         /\ AtomsOf(Rewrite(v, [x \in {a} |-> b])) = {IF x = a THEN b ELSE x : x \in AtomsOf(v)}
<1>. DEFINE f == [x \in {a} |-> b]
<1>1. DOMAIN f = {a} /\ f[a] = b
  OBVIOUS
<1>. HIDE DEF f
<1>2. Absent \notin DOMAIN f /\ \A x \in DOMAIN f : f[x] \in Atom
  BY <1>1, TreeAssumption
<1>3. Rewrite(v, f) \in Map
  BY <1>2, RewriteType
<1>4. AtomsOf(Rewrite(v, f)) = {IF x \in DOMAIN f THEN f[x] ELSE x : x \in AtomsOf(v)}
  BY <1>2, AtomsOfRewrite
<1>5. AtomsOf(Rewrite(v, f)) = {IF x = a THEN b ELSE x : x \in AtomsOf(v)}
  BY <1>1, <1>4
<1>. QED
  BY <1>3, <1>5 DEF f

\* Nothing is in the empty tree.
LEMMA NoAtomInEmptyTree == AtomsOf(EmptyTree) = {}
<1>1. AtomsOf(Absent) = {}
  BY AtomsOfDef, MapsAndLeaves, TreeAssumption DEF Leaf
<1>2. \A k \in Key : EmptyTree[k] = Absent
  BY DEF EmptyTree
<1>3. AtomsOf(EmptyTree) = UNION {AtomsOf(EmptyTree[k]) : k \in Key}
  BY AtomsOfDef, EmptyTreeIsMap, MapsAndLeaves
<1>. QED
  BY <1>1, <1>2, <1>3

-----------------------------------------------------------------------------
(* What the steps rest on.                                                 *)

\* While there is no handle nothing was closed ...
LEMMA NothingClosed ==
  ASSUME TypeOK, StagesOK, ClosingOK, handle = NoConfig
  PROVE  closes = 0 /\ closeErrs = {} /\ pc # "close"
BY DEF TypeOK, StagesOK, ClosingOK, Loaded

\* ... and where that stays so, ClosingOK does.
LEMMA StillNothingClosed ==
  ASSUME closes' = 0, closeErrs' = {}, pc' # "close"
  PROVE  ClosingOK'
BY DEF ClosingOK

\* A source that is read gives a map; whatever it holds, nothing in it is
\* resolved, and a file's has its references parsed and its tokens replaced.
LEMMA LayerFacts ==
  ASSUME TypeOK, ContentOK, NEW s \in Source, LoadError(s) = "none"
  PROVE  /\ LayerOf(s) \in Map
         /\ Resolved \notin AtomsOf(LayerOf(s))
         /\ s \in File => AtomsOf(LayerOf(s)) \cap {RefText, Token} \subseteq {Token} \cap {variable}
<1>. DEFINE c == content[s]
            Given == c \in Map /\ Resolved \notin AtomsOf(c)
<1>1. Given
  <2>1. c \notin FileStates
    BY DEF LoadError, FileStates
  <2>2. c \in Map
    BY <2>1 DEF TypeOK
  <2>. QED
    BY <2>2 DEF ContentOK
<1>2. variable # UnsetVar => variable \in Atom \ {SecretRef, Resolved}
  BY LeafAssumption DEF TypeOK
<1>3. {Token, RefText, SecretRef, Resolved} \subseteq Atom
  BY LeafAssumption
<1>4. ASSUME NEW t \in Map, Resolved \notin AtomsOf(t)
      PROVE  /\ Interpolated(t) \in Map
             /\ Resolved \notin AtomsOf(Interpolated(t))
             /\ (Token \in AtomsOf(t) => variable # UnsetVar) =>
                   AtomsOf(Interpolated(t)) \cap {Token} \subseteq {variable}
  <2>1. CASE variable = UnsetVar
    BY <1>4, <2>1 DEF Interpolated
  <2>2. CASE variable # UnsetVar
    <3>1. /\ Interpolated(t) \in Map
          /\ AtomsOf(Interpolated(t)) = {IF x = Token THEN variable ELSE x : x \in AtomsOf(t)}
      BY <1>2, <1>3, <2>2, ReplaceAtom DEF Interpolated
    <3>. QED
      BY <1>2, <1>4, <2>2, <3>1
  <2>. QED
    BY <2>1, <2>2
<1>5. ASSUME NEW t \in Map
      PROVE  /\ WithRefs(t) \in Map
             /\ AtomsOf(WithRefs(t)) = {IF x = RefText THEN SecretRef ELSE x : x \in AtomsOf(t)}
  BY <1>3, ReplaceAtom DEF WithRefs
<1>6. Parsed(s) \in Map /\ Resolved \notin AtomsOf(Parsed(s))
  <2>1. ASSUME NEW t \in Map, Resolved \notin AtomsOf(t)
        PROVE  WithRefs(t) \in Map /\ Resolved \notin AtomsOf(WithRefs(t))
    <3>1. /\ WithRefs(t) \in Map
          /\ AtomsOf(WithRefs(t)) = {IF x = RefText THEN SecretRef ELSE x : x \in AtomsOf(t)}
      BY <1>5
    <3>. QED
      BY <2>1, <3>1, LeavesDiffer
  <2>. HIDE DEF c
  <2>2. Parsed(s) = IF s \in File THEN WithRefs(Interpolated(c))
                    ELSE IF s \in Dict THEN WithRefs(c) ELSE c
    BY SourceAssumption DEF Parsed, c
  <2>3. CASE s \in File
    BY <1>1, <1>4, <2>1, <2>2, <2>3
  <2>4. CASE s \notin File
    BY <1>1, <2>1, <2>2, <2>4
  <2>. QED
    BY <2>3, <2>4
<1>7. LayerOf(s) \in Map /\ Resolved \notin AtomsOf(LayerOf(s))
  BY <1>4, <1>6 DEF LayerOf
<1>8. ASSUME s \in File
      PROVE  AtomsOf(LayerOf(s)) \cap {RefText, Token} \subseteq {Token} \cap {variable}
  <2>1. LayerOf(s) = WithRefs(Interpolated(c))
    BY <1>8, SourceAssumption DEF LayerOf, Parsed
  <2>2. Token \in AtomsOf(c) => variable # UnsetVar
    BY <1>8 DEF LoadError, Uninterpolable
  <2>3. Interpolated(c) \in Map /\ AtomsOf(Interpolated(c)) \cap {Token} \subseteq {variable}
    BY <1>1, <1>4, <2>2
  <2>. HIDE DEF c
  <2>4. AtomsOf(LayerOf(s)) =
          {IF x = RefText THEN SecretRef ELSE x : x \in AtomsOf(Interpolated(c))}
    BY <1>5, <2>1, <2>3
  <2>5. RefText \notin AtomsOf(LayerOf(s))
    BY <2>4, LeavesDiffer
  <2>6. Token \in AtomsOf(LayerOf(s)) => Token \in AtomsOf(Interpolated(c))
    BY <2>4, LeavesDiffer
  <2>. QED
    BY <2>3, <2>5, <2>6
<1>. QED
  BY <1>7, <1>8

-----------------------------------------------------------------------------
(* The invariant holds initially, and every step keeps it.                 *)

\* The files of Load, told apart and in their order of priority.
LEMMA SourceKinds ==
  /\ {Base, LocalFile, ProdFile} \subseteq File /\ File \subseteq Source
  /\ Base # LocalFile /\ Base # ProdFile /\ LocalFile # ProdFile
  /\ Rank(Base) = 0 /\ Rank(LocalFile) = 1 /\ Rank(ProdFile) = 2
<1>1. /\ {Base, LocalFile, ProdFile} \subseteq File /\ File \subseteq Source
      /\ Base # LocalFile /\ Base # ProdFile /\ LocalFile # ProdFile
  BY SourceAssumption
<1>. QED
  BY <1>1 DEF Rank

\* A path is a sequence of keys.
LEMMA PathsAreSequences == Path \subseteq Seq(Key)
BY TreeAssumption DEF Path

\* Appending to a list of one.
LEMMA AppendToOne ==
  ASSUME NEW S, NEW x \in S, NEW y \in S
  PROVE  Append(<<x>>, y) = <<x, y>>
<1>1. <<x>> \in Seq(S) /\ <<x, y>> \in Seq(S) /\ Append(<<x>>, y) \in Seq(S)
  OBVIOUS
<1>2. Len(Append(<<x>>, y)) = 2 /\ Len(<<x, y>>) = 2
  OBVIOUS
<1>3. Append(<<x>>, y)[1] = x /\ Append(<<x>>, y)[2] = y
  BY <1>1
<1>4. \A i \in 1 .. 2 : Append(<<x>>, y)[i] = <<x, y>>[i]
  BY <1>3
<1>. QED
  BY <1>1, <1>2, <1>4, SeqEqual

\* Lists of one and of two, spelled out.
LEMMA OneAndTwo ==
  ASSUME NEW S, NEW x \in S, NEW y \in S
  PROVE  /\ <<x>> \in Seq(S) /\ Len(<<x>>) = 1 /\ DOMAIN <<x>> = 1 .. 1 /\ <<x>>[1] = x
         /\ <<x, y>> \in Seq(S) /\ Len(<<x, y>>) = 2 /\ DOMAIN <<x, y>> = 1 .. 2
         /\ <<x, y>>[1] = x /\ <<x, y>>[2] = y
OBVIOUS

LEMMA InitIInv == Init => IInv
<1>. SUFFICES ASSUME Init PROVE IInv
  OBVIOUS
<1>1. /\ pc = "idle" /\ handle = NoConfig /\ failure = "none" /\ closes = 0
      /\ merged = EmptyTree /\ closeErrs = {}
  BY DEF Init
<1>2. layers = <<>> /\ sources = <<>> /\ toClose = <<>>
  BY DEF Init
<1>3. content \in Contents /\ variable \in EnvValues /\ everMissing = {f \in File : content[f] = Missing}
  BY DEF Init
<1>4. TypeOK
  <2>1. content \in [Source -> Map \cup FileStates]
    BY <1>3, ContentAssumption
  <2>2. sources \in Seq(Source) /\ toClose \in Seq(Source) /\ layers \in Seq(Map)
    BY <1>2
  <2>. QED
    BY <1>1, <1>3, <2>1, <2>2, EmptyTreeIsMap DEF TypeOK, Steps
<1>5. ContentOK
  BY <1>3, ContentAssumption, SourceKinds DEF ContentOK
<1>6. StagesOK
  BY <1>1, <1>2 DEF StagesOK, Unread, Loaded
<1>7. SourcesOK
  BY <1>1, <1>2 DEF SourcesOK
<1>8. SiblingsOK
  BY <1>1, <1>3 DEF SiblingsOK, Loaded, Merging
<1>9. ClosingOK
  BY <1>1 DEF ClosingOK, Loaded, Merging
<1>10. StackOK /\ ProvenanceOK
  BY <1>1 DEF StackOK, ProvenanceOK, Merging, Loaded
<1>. QED
  BY <1>4, <1>5, <1>6, <1>7, <1>8, <1>9, <1>10 DEF IInv

LEMMA CallLoadStep == ASSUME IInv, CallLoad PROVE IInv'
<1>. USE DEF IInv, CallLoad, closeVars
<1>1. Unread /\ handle = NoConfig /\ closes = 0 /\ closeErrs = {}
  BY NothingClosed DEF Unread
<1>2. Base \in Source
  BY SourceKinds
<1>3. TypeOK' /\ ContentOK'
  BY <1>2 DEF TypeOK, Steps, ContentOK
<1>4. StagesOK' /\ StackOK' /\ ProvenanceOK'
  BY <1>1 DEF StagesOK, StackOK, ProvenanceOK, Unread, Merging, Loaded
<1>5. SourcesOK'
  <2>1. DOMAIN <<Base>> = {1}
    OBVIOUS
  <2>. QED
    BY <2>1 DEF SourcesOK
<1>6. SiblingsOK'
  BY <1>1 DEF SiblingsOK, Merging, Loaded
<1>7. ClosingOK'
  BY <1>1, StillNothingClosed
<1>. QED
  BY <1>3, <1>4, <1>5, <1>6, <1>7

LEMMA ProbeLocalStep == ASSUME IInv, ProbeLocal PROVE IInv'
<1>. USE DEF IInv, ProbeLocal, closeVars, environmentVars
<1>1. handle = NoConfig /\ closes = 0 /\ closeErrs = {}
  BY NothingClosed DEF StagesOK, Unread
<1>2. sources = <<Base>> /\ Base \in Source /\ LocalFile \in File /\ LocalFile \in Source
  BY SourceKinds DEF SourcesOK
<1>3. sources' = IF FileExists(LocalFile) THEN <<Base, LocalFile>> ELSE <<Base>>
  BY <1>2, AppendToOne
<1>4. TypeOK' /\ ContentOK'
  BY <1>2, <1>3 DEF TypeOK, Steps, ContentOK
<1>5. StagesOK' /\ StackOK' /\ ProvenanceOK'
  BY <1>1 DEF StagesOK, StackOK, ProvenanceOK, Unread, Merging, Loaded
<1>6. SourcesOK'
  <2>1. Rank(Base) = 0 /\ Rank(LocalFile) = 1
    BY SourceKinds
  <2>2. \A list \in {<<Base>>, <<Base, LocalFile>>} :
           \A i, h \in DOMAIN list : i < h => Rank(list[i]) <= Rank(list[h])
    <3>1. \A i, h \in DOMAIN <<Base, LocalFile>> : i < h => i = 1 /\ h = 2
      OBVIOUS
    <3>. QED
      BY <1>2, <2>1, <3>1, OneAndTwo
  <2>. QED
    BY <1>3, <2>2 DEF SourcesOK
<1>7. SiblingsOK'
  <2>1. CASE FileExists(LocalFile)
    <3>1. sources' = <<Base, LocalFile>>
      BY <1>3, <2>1
    <3>2. LocalFile \in ListedSources'
      <4>1. 2 \in DOMAIN <<Base, LocalFile>> /\ <<Base, LocalFile>>[2] = LocalFile
        OBVIOUS
      <4>. QED
        BY <3>1, <4>1 DEF ListedSources
    <3>. QED
      BY <1>1, <3>2 DEF SiblingsOK, Merging, Loaded
  <2>2. CASE ~FileExists(LocalFile)
    <3>1. LocalFile \in everMissing
      BY <1>2, <2>2 DEF FileExists, SiblingsOK
    <3>. QED
      BY <1>1, <3>1 DEF SiblingsOK, Merging, Loaded
  <2>. QED
    BY <2>1, <2>2
<1>8. ClosingOK'
  BY <1>1, StillNothingClosed
<1>. QED
  BY <1>4, <1>5, <1>6, <1>7, <1>8

LEMMA ProbeEnvStep == ASSUME IInv, ProbeEnv PROVE IInv'
<1>. USE DEF IInv, ProbeEnv, closeVars, environmentVars
<1>1. handle = NoConfig /\ closes = 0 /\ closeErrs = {}
  BY NothingClosed DEF StagesOK, Unread
<1>2. /\ sources \in {<<Base>>, <<Base, LocalFile>>}
      /\ EnvSibling \in {LocalFile, ProdFile} /\ {Base, LocalFile, ProdFile} \subseteq File
      /\ File \subseteq Source
  BY SourceKinds DEF SourcesOK, EnvSibling
<1>3. CASE dagstackEnv # "unset" /\ FileExists(EnvSibling)
  <2>. DEFINE new == Append(sources, EnvSibling)
  <2>1. /\ sources' = new /\ new \in Seq(Source) /\ Len(new) = Len(sources) + 1
        /\ new[Len(sources) + 1] = EnvSibling
        /\ \A i \in 1 .. Len(sources) : new[i] = sources[i]
    <3>1. sources \in Seq(Source) /\ EnvSibling \in Source
      BY <1>2 DEF TypeOK
    <3>2. sources' = new
      BY <1>3
    <3>. QED
      BY <3>1, <3>2, AppendProperties
  <2>2. Len(sources) \in Nat /\ DOMAIN sources = 1 .. Len(sources) /\ DOMAIN new = 1 .. Len(new)
    BY <2>1 DEF TypeOK
  <2>. HIDE DEF new
  <2>3. TypeOK' /\ ContentOK'
    BY <2>1 DEF TypeOK, Steps, ContentOK
  <2>4. StagesOK' /\ StackOK' /\ ProvenanceOK'
    BY <1>1 DEF StagesOK, StackOK, ProvenanceOK, Unread, Merging, Loaded
  <2>5. SourcesOK'
    <3>1. Rank(Base) = 0 /\ Rank(LocalFile) = 1 /\ Rank(EnvSibling) \in {1, 2}
      BY <1>2, SourceKinds
    <3>2. ASSUME NEW i \in DOMAIN new, NEW h \in DOMAIN new, i < h
          PROVE  Rank(new[i]) <= Rank(new[h])
      <4>1. i \in DOMAIN sources /\ new[i] = sources[i]
        BY <2>1, <2>2, <3>2
      <4>2. CASE h \in DOMAIN sources
        BY <2>1, <2>2, <3>2, <4>1, <4>2 DEF SourcesOK
      <4>3. CASE h = Len(sources) + 1
        <5>1. sources[i] \in {Base, LocalFile}
          BY <1>2, <4>1
        <5>. QED
          BY <2>1, <3>1, <4>1, <4>3, <5>1
      <4>. QED
        BY <2>1, <2>2, <4>2, <4>3
    <3>. QED
      BY <2>1, <3>2 DEF SourcesOK
  <2>6. SiblingsOK'
    <3>1. EnvSibling \in ListedSources' /\ ListedSources \subseteq ListedSources'
      BY <2>1, <2>2 DEF ListedSources
    <3>. QED
      BY <3>1 DEF SiblingsOK, Siblings, EnvSibling
  <2>7. ClosingOK'
    BY <1>1, StillNothingClosed
  <2>. QED
    BY <2>3, <2>4, <2>5, <2>6, <2>7
<1>4. CASE ~(dagstackEnv # "unset" /\ FileExists(EnvSibling))
  <2>1. sources' = sources
    BY <1>4
  <2>2. TypeOK' /\ ContentOK'
    BY <2>1 DEF TypeOK, Steps, ContentOK
  <2>3. StagesOK' /\ StackOK' /\ ProvenanceOK' /\ SourcesOK'
    BY <1>1, <2>1 DEF StagesOK, StackOK, ProvenanceOK, SourcesOK, Unread, Merging, Loaded
  <2>4. SiblingsOK'
    <3>1. dagstackEnv # "unset" => EnvSibling \in everMissing
      BY <1>2, <1>4 DEF FileExists, SiblingsOK
    <3>2. Siblings' = Siblings /\ ListedSources' = ListedSources /\ everMissing' = everMissing
      BY <2>1 DEF Siblings, ListedSources, EnvSibling
    <3>3. Siblings \subseteq ListedSources \cup everMissing
      BY <3>1 DEF SiblingsOK, Siblings
    <3>. QED
      BY <3>2, <3>3 DEF SiblingsOK
  <2>5. ClosingOK'
    BY <1>1, StillNothingClosed
  <2>. QED
    BY <2>2, <2>3, <2>4, <2>5
<1>. QED
  BY <1>3, <1>4

LEMMA CallLoadFromStep ==
  ASSUME IInv, NEW list \in Lists, NEW given_ \in SUBSET SecretSources, CallLoadFrom(list, given_)
  PROVE  IInv'
<1>. USE DEF IInv, CallLoadFrom, closeVars, environmentVars
<1>1. Unread /\ handle = NoConfig /\ closes = 0 /\ closeErrs = {}
  BY NothingClosed DEF Unread
<1>2. list \in Seq(Source) /\ \A i \in DOMAIN list : list[i] \notin {Base, LocalFile, ProdFile}
  BY SourceAssumption
<1>3. TypeOK' /\ ContentOK'
  BY <1>2 DEF TypeOK, Steps, ContentOK
<1>4. StagesOK' /\ StackOK' /\ ProvenanceOK'
  BY <1>1 DEF StagesOK, StackOK, ProvenanceOK, Unread, Merging, Loaded
<1>5. SourcesOK'
  <2>1. \A i \in DOMAIN list : Rank(list[i]) = 0
    BY <1>2 DEF Rank
  <2>. QED
    BY <2>1 DEF SourcesOK
<1>6. SiblingsOK'
  <2>1. Base \notin ListedSources'
    BY <1>2 DEF ListedSources
  <2>. QED
    BY <2>1 DEF SiblingsOK
<1>7. ClosingOK'
  BY <1>1, StillNothingClosed
<1>. QED
  BY <1>3, <1>4, <1>5, <1>6, <1>7

\* A call that fails leaves no handle, and what it merged behind it.
LEMMA FailStep ==
  ASSUME IInv, handle = NoConfig, NEW reason, reason # "none", Fail(reason)
  PROVE  IInv'
<1>. USE DEF IInv, Fail, closeVars, environmentVars
<1>1. TypeOK' /\ ContentOK'
  BY DEF TypeOK, Steps, ContentOK
<1>2. closes = 0 /\ closeErrs = {}
  BY NothingClosed
<1>3. StagesOK' /\ StackOK' /\ ProvenanceOK' /\ SourcesOK' /\ SiblingsOK'
  BY <1>2 DEF StagesOK, StackOK, ProvenanceOK, SourcesOK, SiblingsOK, Unread, Merging, Loaded
<1>4. ClosingOK'
  BY <1>2, StillNothingClosed
<1>. QED
  BY <1>1, <1>3, <1>4

LEMMA EnterLoadFromStep == ASSUME IInv, EnterLoadFrom PROVE IInv'
<1>. USE DEF IInv
<1>1. pc = "enter" /\ handle = NoConfig /\ layers = <<>> /\ merged = EmptyTree
  BY DEF EnterLoadFrom, StagesOK, Unread
<1>2. \/ Fail("source_unavailable") \/ Fail("validation_failed")
      \/ pc' = "read" /\ UNCHANGED <<environmentVars, loadVars, handle, closeVars>>
  BY DEF EnterLoadFrom
<1>3. CASE Fail("source_unavailable")
  BY <1>1, <1>3, FailStep
<1>4. CASE Fail("validation_failed")
  BY <1>1, <1>4, FailStep
<1>5. CASE pc' = "read" /\ UNCHANGED <<environmentVars, loadVars, handle, closeVars>>
  <2>. USE <1>1, <1>5 DEF environmentVars, loadVars, closeVars
  <2>1. closes = 0 /\ closeErrs = {}
    BY NothingClosed
  <2>2. TypeOK' /\ ContentOK'
    BY DEF TypeOK, Steps, ContentOK
  <2>3. StagesOK' /\ SourcesOK' /\ SiblingsOK'
    BY <2>1 DEF TypeOK, StagesOK, SourcesOK, SiblingsOK, ListedSources, Siblings, EnvSibling,
                Unread, Merging, Loaded
  <2>4. StackOK'
    BY EmptyStack, PathsAreSequences DEF StackOK
  <2>5. ProvenanceOK'
    BY NoAtomInEmptyTree DEF ProvenanceOK
  <2>6. ClosingOK'
    BY <2>1, StillNothingClosed
  <2>. QED
    BY <2>2, <2>3, <2>4, <2>5, <2>6
<1>. QED
  BY <1>2, <1>3, <1>4, <1>5

LEMMA ReadSourceStep == ASSUME IInv, ReadSource PROVE IInv'
<1>. USE DEF IInv
<1>1. /\ pc = "read" /\ handle = NoConfig /\ Merging
      /\ Len(layers) < Len(sources) /\ Len(layers) \in Nat /\ Len(sources) \in Nat
  BY DEF ReadSource, StagesOK, Merging, TypeOK
<1>2. /\ Len(layers) + 1 \in DOMAIN sources
      /\ NextSource \in Source /\ NextSource \in ListedSources
  BY <1>1 DEF NextSource, TypeOK, ListedSources
<1>3. CASE LoadError(NextSource) # "none"
  BY <1>1, <1>3, FailStep DEF ReadSource
<1>4. CASE LoadError(NextSource) = "none"
  <2>. DEFINE layer == LayerOf(NextSource)
  <2>1. /\ layer \in Map
        /\ Resolved \notin AtomsOf(layer)
        /\ NextSource \in File =>
             AtomsOf(layer) \cap {RefText, Token} \subseteq {Token} \cap {variable}
    BY <1>2, <1>4, LayerFacts
  <2>2. /\ layers' = Append(layers, layer)
        /\ merged' = DeepMerge(merged, layer)
        /\ UNCHANGED <<environmentVars, pc, sources, given, failure, handle, closeVars>>
    BY <1>4 DEF ReadSource
  <2>. HIDE DEF layer
  <2>. USE <1>1, <2>2 DEF environmentVars, closeVars
  <2>3. closes = 0 /\ closeErrs = {}
    BY NothingClosed
  <2>4. TypeOK' /\ ContentOK'
    BY <2>1, DeepMergeType DEF TypeOK, Steps, ContentOK
  <2>5. StagesOK' /\ SourcesOK'
    BY DEF TypeOK, StagesOK, SourcesOK, Unread, Loaded
  <2>6. StackOK'
    BY <2>1, StackGrows, PathsAreSequences DEF StackOK, TypeOK
  <2>7. ProvenanceOK'
    <3>1. AtomsOf(merged') \subseteq AtomsOf(merged) \cup AtomsOf(layer)
      BY <2>1, AtomsOfDeepMerge DEF TypeOK
    <3>2. ListedSources' = ListedSources /\ variable' = variable
      BY DEF ListedSources
    <3>. QED
      BY <1>2, <2>1, <3>1, <3>2 DEF ProvenanceOK
  <2>8. SiblingsOK'
    BY DEF SiblingsOK, ListedSources, Siblings, EnvSibling, Merging
  <2>9. ClosingOK'
    BY <2>3, StillNothingClosed
  <2>. QED
    BY <2>4, <2>5, <2>6, <2>7, <2>8, <2>9
<1>. QED
  BY <1>3, <1>4

\* The copies of the merged tree that the handle holds are maps.
LEMMA ResolutionType == \A v \in Map : Resolution(v) \in Map
<1>1. SecretRef \in Atom /\ Resolved \in Atom
  BY LeafAssumption
<1>. QED
  BY <1>1, ReplaceAtom DEF Resolution

LEMMA ResolveStep == ASSUME IInv, Resolve PROVE IInv'
<1>. USE DEF IInv
<1>1. pc = "read" /\ handle = NoConfig /\ Merging /\ Len(layers) = Len(sources)
  BY DEF Resolve, StagesOK, Merging
<1>2. CASE Fail("secret_unresolved")
  BY <1>1, <1>2, FailStep
<1>3. CASE /\ handle' = [tree |-> Resolution(merged), originalTree |-> merged, sources |-> sources]
           /\ pc' = "idle"
           /\ UNCHANGED <<environmentVars, loadVars, closeVars>>
  <2>. USE <1>1, <1>3 DEF environmentVars, loadVars, closeVars
  <2>1. closes = 0 /\ closeErrs = {}
    BY NothingClosed
  <2>2. handle' \in Handle /\ handle' # NoConfig
    BY ResolutionType, NoConfigAssumption DEF Handle, TypeOK
  <2>3. TypeOK' /\ ContentOK'
    BY <2>2 DEF TypeOK, Steps, ContentOK
  <2>4. StagesOK' /\ SourcesOK'
    BY <2>1, <2>2 DEF StagesOK, SourcesOK, Unread, Loaded
  <2>5. StackOK' /\ ProvenanceOK' /\ SiblingsOK'
    BY DEF StackOK, ProvenanceOK, SiblingsOK, ListedSources, Siblings, EnvSibling
  <2>6. ClosingOK'
    BY <2>1, StillNothingClosed
  <2>. QED
    BY <2>3, <2>4, <2>5, <2>6
<1>. QED
  BY <1>2, <1>3 DEF Resolve

LEMMA CallCloseStep == ASSUME IInv, CallClose PROVE IInv'
<1>. USE DEF IInv, CallClose, environmentVars, loadVars
<1>1. Loaded /\ handle \in Handle /\ Merging
  BY DEF Loaded, Merging, TypeOK
<1>2. TypeOK' /\ ContentOK'
  BY <1>1 DEF TypeOK, Steps, ContentOK, Handle
<1>3. StagesOK' /\ SourcesOK' /\ StackOK' /\ ProvenanceOK' /\ SiblingsOK'
  BY <1>1 DEF StagesOK, SourcesOK, StackOK, ProvenanceOK, SiblingsOK, ListedSources, Siblings,
              EnvSibling, Unread, Merging, Loaded
<1>4. ClosingOK'
  <2>1. In(toClose)' = In(handle.sources) /\ In(handle.sources)' = In(handle.sources)
    BY DEF In
  <2>2. closes = 0 => In(handle.sources) = ListedSources
    BY <1>1 DEF StagesOK, In, ListedSources
  <2>3. ListedSources' = ListedSources
    BY DEF ListedSources
  <2>. QED
    BY <2>1, <2>2, <2>3 DEF ClosingOK
<1>. QED
  BY <1>2, <1>3, <1>4

LEMMA CloseSourceStep == ASSUME IInv, CloseSource PROVE IInv'
<1>. USE DEF IInv, CloseSource, environmentVars, loadVars
<1>. DEFINE s == Head(toClose)
<1>1. Loaded /\ Merging
  BY DEF StagesOK, Merging
<1>2. /\ Tail(toClose) \in Seq(Source)
      /\ In(toClose) = {s} \cup In(Tail(toClose))
  <2>1. /\ Len(toClose) > 0 /\ Len(Tail(toClose)) = Len(toClose) - 1
        /\ Tail(toClose) \in Seq(Source) /\ s = toClose[1]
        /\ \A i \in 1 .. Len(Tail(toClose)) : Tail(toClose)[i] = toClose[i + 1]
    BY DEF TypeOK
  <2>2. \A i \in DOMAIN toClose : i = 1 \/ (i - 1 \in DOMAIN Tail(toClose)
                                            /\ Tail(toClose)[i - 1] = toClose[i])
    BY <2>1 DEF TypeOK
  <2>3. In(toClose) \subseteq {s} \cup In(Tail(toClose))
    BY <2>1, <2>2 DEF In
  <2>4. In(Tail(toClose)) \subseteq In(toClose)
    <3>1. \A i \in DOMAIN Tail(toClose) : i + 1 \in DOMAIN toClose
                                          /\ Tail(toClose)[i] = toClose[i + 1]
      BY <2>1 DEF TypeOK
    <3>. QED
      BY <3>1 DEF In
  <2>5. s \in In(toClose)
    <3>1. 1 \in DOMAIN toClose
      BY <2>1 DEF TypeOK
    <3>. QED
      BY <2>1, <3>1 DEF In
  <2>. QED
    BY <2>1, <2>3, <2>4, <2>5
<1>3. TypeOK' /\ ContentOK'
  BY <1>2 DEF TypeOK, Steps, ContentOK
<1>4. StagesOK' /\ SourcesOK' /\ StackOK' /\ ProvenanceOK' /\ SiblingsOK'
  BY <1>1 DEF StagesOK, SourcesOK, StackOK, ProvenanceOK, SiblingsOK, ListedSources, Siblings,
              EnvSibling, Unread, Merging, Loaded
<1>5. ClosingOK'
  <2>1. In(toClose)' = In(Tail(toClose)) /\ In(handle.sources)' = In(handle.sources)
    BY DEF In
  <2>2. ListedSources' = ListedSources
    BY DEF ListedSources
  <2>3. closes = 0 => In(handle.sources) = ListedSources
    BY <1>1 DEF StagesOK, In, ListedSources
  <2>4. closes = 1 => In(handle.sources) = {}
    BY <1>1 DEF StagesOK, In
  <2>5. s \in In(handle.sources)
    BY <1>2 DEF ClosingOK
  <2>6. closed \subseteq closed' /\ (s \in Closers => s \in closed')
    OBVIOUS
  <2>7. closeErrs' = closeErrs \cup ({s} \cap FailingClosers)
    OBVIOUS
  <2>8. pc' = pc /\ closes' = closes /\ pc = "close" /\ closes \in {0, 1}
    BY DEF StagesOK, TypeOK
  <2>. QED
    BY <1>2, <2>1, <2>2, <2>3, <2>4, <2>5, <2>6, <2>7, <2>8 DEF ClosingOK
<1>. QED
  BY <1>3, <1>4, <1>5

LEMMA FinishCloseStep == ASSUME IInv, FinishClose PROVE IInv'
<1>. USE DEF IInv, FinishClose, environmentVars, loadVars
<1>1. Loaded /\ Merging /\ handle \in Handle /\ closes \in {0, 1}
  BY DEF StagesOK, Merging, Loaded, TypeOK
<1>2. /\ handle' \in Handle /\ handle' # NoConfig
      /\ handle'.tree = handle.tree /\ handle'.originalTree = handle.originalTree
      /\ handle'.sources = <<>>
  <2>1. handle' = [handle EXCEPT !.sources = <<>>]
    OBVIOUS
  <2>2. <<>> \in Seq(Source)
    OBVIOUS
  <2>3. handle' \in Handle
    BY <1>1, <2>1, <2>2 DEF Handle
  <2>4. /\ handle'.tree = handle.tree /\ handle'.originalTree = handle.originalTree
        /\ handle'.sources = <<>>
    BY <1>1, <2>1 DEF Handle
  <2>. QED
    BY <2>3, <2>4, NoConfigAssumption
<1>3. TypeOK' /\ ContentOK'
  BY <1>1, <1>2 DEF TypeOK, Steps, ContentOK
<1>4. StagesOK' /\ SourcesOK'
  BY <1>1, <1>2 DEF StagesOK, SourcesOK, Unread, Loaded
<1>5. StackOK' /\ ProvenanceOK' /\ SiblingsOK'
  BY <1>1 DEF StackOK, ProvenanceOK, SiblingsOK, ListedSources, Siblings, EnvSibling
<1>6. ClosingOK'
  <2>1. In(toClose) = {}
    BY DEF In
  <2>2. ListedSources' = ListedSources
    BY DEF ListedSources
  <2>. QED
    BY <1>1, <2>1, <2>2 DEF ClosingOK
<1>. QED
  BY <1>3, <1>4, <1>5, <1>6

LEMMA EditStep == ASSUME IInv, NEW f \in File, Edit(f) PROVE IInv'
<1>. USE DEF IInv, Edit, loadVars, closeVars
<1>1. PICK c \in Variants[f] : content' = [content EXCEPT ![f] = c]
  OBVIOUS
<1>2. c \in Map \cup FileStates /\ (c \in Map => AtomsOf(c) \cap {SecretRef, Resolved} = {})
  BY ContentAssumption
<1>3. TypeOK'
  BY <1>1, <1>2, SourceAssumption DEF TypeOK
<1>4. ContentOK'
  BY <1>1, <1>2, SourceAssumption DEF ContentOK, TypeOK
<1>5. StagesOK' /\ SourcesOK' /\ StackOK' /\ ProvenanceOK'
  BY DEF StagesOK, SourcesOK, StackOK, ProvenanceOK, ListedSources, Unread, Merging, Loaded
<1>6. SiblingsOK'
  <2>1. /\ everMissing \subseteq everMissing' /\ Siblings' = Siblings
        /\ {g \in File : content'[g] = Missing} \subseteq everMissing'
        /\ ListedSources' = ListedSources /\ Merging' = Merging
    BY DEF Siblings, EnvSibling, ListedSources, Merging, Loaded
  <2>. QED
    BY <2>1 DEF SiblingsOK
<1>7. ClosingOK'
  BY DEF ClosingOK, ListedSources, In
<1>. QED
  BY <1>3, <1>4, <1>5, <1>6, <1>7

\* Cancelling the caller's context touches nothing the invariant speaks of,
\* nor does a step that changes nothing.
LEMMA QuietStep == ASSUME IInv, Cancel \/ UNCHANGED vars PROVE IInv'
<1>. USE DEF IInv, Cancel, vars, environmentVars, loadVars, closeVars
<1>1. TypeOK' /\ ContentOK'
  BY DEF TypeOK, Steps, ContentOK
<1>2. StagesOK' /\ SourcesOK' /\ StackOK' /\ ProvenanceOK'
  BY DEF StagesOK, SourcesOK, StackOK, ProvenanceOK, ListedSources, Unread, Merging, Loaded
<1>3. SiblingsOK'
  BY DEF SiblingsOK, Siblings, EnvSibling, ListedSources, Merging, Loaded
<1>4. ClosingOK'
  BY DEF ClosingOK, ListedSources, In
<1>. QED
  BY <1>1, <1>2, <1>3, <1>4

LEMMA NextIInv == IInv /\ [Next]_vars => IInv'
<1>. SUFFICES ASSUME IInv, [Next]_vars PROVE IInv'
  OBVIOUS
<1>. QED
  BY CallLoadStep, ProbeLocalStep, ProbeEnvStep, CallLoadFromStep, EnterLoadFromStep,
     ReadSourceStep, ResolveStep, CallCloseStep, CloseSourceStep, FinishCloseStep, EditStep,
     QuietStep DEF Next

\* What a load and the closing of its handle keep true of every state.
THEOREM Invariance == Spec => []IInv
BY InitIInv, NextIInv, PTL DEF Spec

-----------------------------------------------------------------------------
(* What follows from it.                                                   *)

\* At every path, of any length up to that of the deepest tree, the handle's
\* tree says what the last source in priority that speaks about it says.
THEOREM LastWriterWinsHolds == Spec => []LastWriterWins
<1>1. IInv => LastWriterWins
  <2>. SUFFICES ASSUME IInv, Loaded, NEW p \in Path
                PROVE  IsStackAt(handle.originalTree, layers, Above, p)
    BY DEF LastWriterWins
  <2>1. Above = UpTo(layers)
    <3>1. \A i, h \in DOMAIN layers : Outranks(h, i) <=> h > i
      <4>. SUFFICES ASSUME NEW i \in DOMAIN layers, NEW h \in DOMAIN layers
                    PROVE  Outranks(h, i) <=> h > i
        OBVIOUS
      <4>1. i \in DOMAIN sources /\ h \in DOMAIN sources /\ i \in Int /\ h \in Int
        BY DEF IInv, StagesOK, TypeOK
      <4>2. Rank(sources[i]) \in Int /\ Rank(sources[h]) \in Int
        BY DEF Rank
      <4>3. /\ i < h => Rank(sources[i]) <= Rank(sources[h])
            /\ h < i => Rank(sources[h]) <= Rank(sources[i])
        BY <4>1 DEF IInv, SourcesOK
      <4>. QED
        BY <4>1, <4>2, <4>3 DEF Outranks
    <3>2. DOMAIN layers = 1 .. Len(layers) /\ Len(layers) \in Nat
      BY DEF IInv, TypeOK
    <3>3. \A i \in DOMAIN layers : {h \in DOMAIN layers : Outranks(h, i)} = (i + 1) .. Len(layers)
      BY <3>1, <3>2
    <3>. QED
      BY <3>3, Zenon DEF Above, UpTo
  <2>. QED
    BY <2>1 DEF IInv, StagesOK, StackOK, Merging
<1>. QED
  BY <1>1, Invariance, PTL

\* A sibling file is left out only if it was missing at some instant.
THEOREM NoSilentSkipHolds == Spec => []NoSilentSkip
<1>1. IInv => NoSilentSkip
  BY DEF IInv, SiblingsOK, Merging, NoSilentSkip
<1>. QED
  BY <1>1, Invariance, PTL

\* The two snapshots of any handle differ in what was secret and in nothing
\* else.
THEOREM SnapshotMasksSecretsHolds == Spec => []SnapshotMasksSecrets
<1>1. IInv => SnapshotMasksSecrets
  <2>. SUFFICES ASSUME IInv, Loaded
                PROVE  Snapshot = Rewrite(SnapshotIncludingSecrets,
                                          [a \in {Resolved} |-> MaskedPlaceholder])
    BY DEF SnapshotMasksSecrets
  <2>1. merged \in Map /\ Resolved \notin AtomsOf(merged)
    BY DEF IInv, TypeOK, ProvenanceOK, Merging
  <2>2. handle.originalTree = merged /\ handle.tree = Resolution(merged)
    BY DEF IInv, StagesOK
  <2>. QED
    BY <2>1, <2>2, MaskingCommutes DEF Snapshot, SnapshotIncludingSecrets
<1>. QED
  BY <1>1, Invariance, PTL

\* No reference in a file, or brought into one by a variable, is left in the
\* tree the getters read.
THEOREM FileReferencesResolvedHolds == Spec => []FileReferencesResolved
<1>1. IInv => FileReferencesResolved
  <2>. SUFFICES ASSUME IInv, Loaded, ListedSources \subseteq File
                PROVE  AtomsOf(handle.tree) \cap {RefText, SecretRef, Token}
                         \subseteq {Token} \cap {variable}
    BY DEF FileReferencesResolved
  <2>1. merged \in Map /\ handle.tree = Resolution(merged)
    BY DEF IInv, TypeOK, StagesOK
  <2>2. AtomsOf(handle.tree) = {IF x = SecretRef THEN Resolved ELSE x : x \in AtomsOf(merged)}
    <3>1. SecretRef \in Atom /\ Resolved \in Atom
      BY LeafAssumption
    <3>. QED
      BY <2>1, <3>1, ReplaceAtom DEF Resolution
  <2>3. AtomsOf(merged) \cap {RefText, Token} \subseteq {Token} \cap {variable}
    BY DEF IInv, ProvenanceOK, Merging
  <2>. QED
    BY <2>2, <2>3, LeavesDiffer
<1>. QED
  BY <1>1, Invariance, PTL

\* However many sources fail to close, every one that can be closed is.
THEOREM CloseReachesAllHolds == Spec => []CloseReachesAll
<1>1. IInv => CloseReachesAll
  BY DEF IInv, ClosingOK, CloseReachesAll
<1>. QED
  BY <1>1, Invariance, PTL

\* The first Close reports exactly the failing sources, a later one none.
THEOREM CloseReportsHolds == Spec => []CloseReports
<1>1. IInv => CloseReports
  BY DEF IInv, ClosingOK, CloseReports
<1>. QED
  BY <1>1, Invariance, PTL
=============================================================================
