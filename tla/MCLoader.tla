------------------------------ MODULE MCLoader ------------------------------
(* Small instances of Loader for TLC.                                      *)
EXTENDS Loader, TLC

CONSTANTS v1, v2, v3, d1, d2, d3, f1, custom, failing

Only(k, v) == [EmptyTree EXCEPT ![k] = v]
Both(t, u) == [k \in Key |-> IF u[k] # Absent THEN u[k] ELSE t[k]]

\* Dict layers: trees up to three deep, an atom of its own in each layer, in
\* every stack of up to three.
Bottom(v) == {EmptyTree, Only("a", v)}
Middle(v) == {EmptyTree, Only("b", v), Both(Only("a", v), Only("b", v))}
             \cup {Only("a", x) : x \in {v} \cup Bottom(v)}
             \cup {Both(Only("a", Only("a", v)), Only("b", v))}
Layer(v) == {EmptyTree, Only("a", v)} \cup {Only("a", m) : m \in Middle(v)}
Top(v) == {EmptyTree, Only("a", v), Only("a", EmptyTree), Only("a", Only("a", v)),
           Only("a", Both(Only("a", Only("a", v)), Only("b", v)))}
DictContents ==
    {[s \in Source |-> CASE s = d1 -> x [] s = d2 -> y [] s = d3 -> z
                         [] OTHER -> Missing] : x \in Layer(v1), y \in Layer(v2), z \in Top(v3)}
DictLists == {<<>>, <<d1>>, <<d1, d2>>, <<d1, d2, d3>>}

\* Files that come and go and change under the loader.
FileVariants == [s \in File |->
    CASE s = Base -> {Missing, Only("a", v1), Only("a", Only("b", v1))}
      [] s = LocalFile -> {Missing, Denied, Only("a", v2), Only("a", Only("b", v2))}
      [] s = ProdFile -> {Missing, Denied, Malformed, Only("a", Token),
                          Only("a", Only("b", v2))}
      [] OTHER -> {EmptyTree}]
FileContents ==
    {[s \in Source |-> CASE s = Base -> b [] s = LocalFile -> l [] s = ProdFile -> p
                         [] OTHER -> EmptyTree]
       : b \in FileVariants[Base], l \in FileVariants[LocalFile],
         p \in FileVariants[ProdFile]}

\* References and tokens in every kind of source, some closeable.
Texts == {Both(Only("password", v1), Only("a", v2)),
          Both(Only("a", Token), Only("b", RefText)),
          Only("b", Only("password", RefText))}
TextContents ==
    {[s \in Source |-> CASE s = f1 -> x [] s = d2 -> y [] s = custom -> z
                         [] s = failing -> Only("a", v2)
                         [] OTHER -> Missing] : x, y, z \in Texts}
TextLists == {<<f1>>, <<d2>>, <<custom>>, <<f1, d2>>, <<d2, f1>>,
              <<failing, custom>>, <<custom, failing, f1>>}
ListContents == DictContents \cup TextContents
AllLists == DictLists \cup TextLists
SchemeOfSecret == "s1" :> "vault" @@ "s2" :> "vault" @@ "s3" :> "env"
=============================================================================
