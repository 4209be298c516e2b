--------------------------- MODULE MCConfigHandle ---------------------------
(* Small instances of ConfigHandle for TLC.                                *)
EXTENDS ConfigHandle, TLC

CONSTANTS l1, l2, l3, l4

\* One reference; references with keys of their own; references to the same
\* key beside one to a sibling field and one with no source.
KeyOfOne == l1 :> "k1"
KeyOfTwo == l1 :> "k1" @@ l2 :> "k2"
KeyOfFour == l1 :> "k1" @@ l2 :> "k1" @@ l3 :> "k2" @@ l4 :> "k3"

\* The fields of one object; fields of two objects.
ObjectOfOne == "k1" :> "o1"
ObjectOfSiblings == "k1" :> "o1" @@ "k2" :> "o1"
ObjectOfThree == "k1" :> "o1" @@ "k2" :> "o1" @@ "k3" :> "o1"

TtlOne == "k1" :> 0
TtlNone == "k1" :> 0 @@ "k2" :> 0
TtlShort == "k1" :> 1 @@ "k2" :> 0
TtlThree == "k1" :> 1 @@ "k2" :> 0 @@ "k3" :> 0

TreeSymmetry == Permutations(TreeId)
HandleSymmetry == Permutations(TreeId) \cup Permutations(Refresher)

\* ADR-0002 (spec/adr/0002:183-184): the loader caches by the path up to "#",
\* so that one read of an object serves its fields; then the fields of one
\* object in one tree come from one version of it.
SiblingFieldsAgree ==
    tree # NoTree =>
        \A l, m \in Leaf :
            LET v == heap[tree][l]  w == heap[tree][m] IN
            /\ v \in SecretValue /\ w \in SecretValue
            /\ ObjectOf[v.key] = ObjectOf[w.key]
            => v.version = w.version
=============================================================================
