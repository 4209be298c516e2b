----------------------------- MODULE ConfigTree -----------------------------
(***************************************************************************)
(* Configuration trees and their deep merge (src/merge.go).  A map gives   *)
(* every key a tree, or Absent; everything else (a scalar, a list, null, a *)
(* SecretRef) is an atom, because the merge replaces it as a whole.        *)
(***************************************************************************)
EXTENDS Naturals, Sequences, FiniteSets

CONSTANTS
    Atom,     \* the values that are no maps
    Absent,   \* what a map gives the keys it does not have
    Nowhere,  \* where a path leads that goes on below an atom
    Key,      \* the keys
    Depth     \* how deep maps nest, any number: the code sets no limit

\* What is no map: the trees that do not nest.
Leaf == Atom \cup {Absent}

TreesTo[n \in Nat] ==
    IF n = 0 THEN Leaf ELSE Leaf \cup [Key -> TreesTo[n - 1]]

Map == [Key -> TreesTo[Depth]]
Tree == Leaf \cup Map

IsMap(v) == v \notin Leaf \cup {Nowhere}
EmptyTree == [k \in Key |-> Absent]

ASSUME TreeAssumption ==
    /\ Depth \in Nat
    /\ Absent \notin Atom /\ Nowhere \notin Leaf
    /\ \A v \in Leaf \cup {Nowhere} : v \notin Map

\* Mutant: maps are replaced like any other value.
DeepMergeShallow(base, override) ==
    [k \in Key |-> IF override[k] # Absent THEN override[k] ELSE base[k]]

\* Maps merge key by key; any other pair is decided for the override.
DeepMerge(base, override) ==
    LET onto[b \in Map] ==
          [o \in Map |->
             [k \in Key |->
                IF o[k] = Absent THEN b[k]
                ELSE IF IsMap(b[k]) /\ IsMap(o[k]) THEN onto[b[k]][o[k]]
                ELSE o[k]]]
    IN onto[base][override]

\* A copy of v whose atoms are mapped by f, an identity outside its domain.
Rewrite(v, f) ==
    LET copy[t \in Tree] ==
          IF IsMap(t) THEN [k \in Key |-> copy[t[k]]]
          ELSE IF t \in DOMAIN f THEN f[t] ELSE t
    IN copy[v]

AtomsOf(v) ==
    LET atoms[t \in Tree] ==
          IF IsMap(t) THEN UNION {atoms[t[k]] : k \in Key} ELSE {t} \cap Atom
    IN atoms[v]

\* The paths that can lead somewhere in a tree.
Path == UNION {[1 .. n -> Key] : n \in 0 .. Depth + 1}

-----------------------------------------------------------------------------
(* The reference the merge is compared with: what a stack of layers says   *)
(* about one path, without merging anything.                               *)

\* Where v leads along p, at each length: to a map, an atom, Absent where a
\* map does not have the key, or Nowhere below an atom.
NodesAlong(v, p) ==
    LET at[n \in 0 .. Len(p)] ==
          IF n = 0 THEN v
          ELSE LET node == at[n - 1]
               IN IF IsMap(node) THEN node[p[n]]
                  ELSE IF node = Absent THEN Absent ELSE Nowhere
    IN at

NodeAt(v, p) == NodesAlong(v, p)[Len(p)]

\* At path p the tree v is what the last layer says that says anything about p,
\* where above[i] are the layers above layer i.
IsStackAt(v, layers, above, p) ==
    LET said == [i \in DOMAIN layers |-> NodeAt(layers[i], p)]
        last == {i \in DOMAIN layers :
                   said[i] # Absent /\ \A h \in above[i] : said[h] = Absent}
    IN /\ {NodeAt(v, p)} \cap Atom = {said[i] : i \in last} \cap Atom
       /\ IsMap(NodeAt(v, p)) <=> p = <<>> \/ \E i \in last : IsMap(said[i])

\* The layers above each layer of a stack.
UpTo(layers) == [i \in DOMAIN layers |-> (i + 1) .. Len(layers)]
=============================================================================
