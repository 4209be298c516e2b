---------------------------- MODULE MCReferences ----------------------------
(***************************************************************************)
(* The leaves References is checked with: every text of up to a few pieces *)
(* from an alphabet, one for each parser.                                  *)
(***************************************************************************)
EXTENDS References

CONSTANTS
    BodyPieces,     \* bound: pieces after the path of a secret reference
    TextPieces      \* bound: pieces of a text with ${X}, and of a mixed text

MCEscapes == [t \in {"%23", "%26", "+"} |->
                 CASE t = "%23" -> <<"#">> [] t = "%26" -> <<"&">> [] t = "+" -> <<" ">>]

UpTo(n, pieces) == UNION {{FlattenSeq(p) : p \in [1 .. m -> pieces]} : m \in 0 .. n}

Unary(tokens) == {<<t>> : t \in tokens}

\* Bodies of references: after a path, after a path and a query, or nothing.
PathStarts == {<<>>, <<"kv", "/", "a">>, <<"kv", "/", "a", "?", "version", "=", "3">>}
Bodies ==
    {start \o rest : start \in PathStarts,
                     rest \in UpTo(BodyPieces, Unary({"a", "?", "#", ":", "-", "=", "&",
                                                      "%23", "+"}))}
SecretTexts ==
    {RefOpening \o <<"vault", ":">> \o body \o <<"}">> : body \in Bodies}
    \cup {RefOpening \o rest \o <<"}">> :
            rest \in {<<>>, <<"vault">>, <<"Vault", ":", "kv", "/", "a">>,
                      <<"awssm", ":", "a">>, <<"awssm", ":", "a", ":", "-", "d">>,
                      <<"vault", ":", "kv", "/", "a", "?", "version", "=", "%2">>,
                      <<"vault", ":", "kv", "/", "a", "?", "other", "=", "3", ":", "-", "d">>,
                      <<"vault", ":", "kv", "/", "a", "?", "version", "=", "3", "&", "version",
                        "=", "%26">>}}

NoTwoNames(s) == \A i \in 1 .. Len(s) - 1 : ~(s[i] \in Name /\ s[i + 1] \in Name)

\* Texts with variables, whole or torn.
VariableTexts ==
    {s \in UpTo(TextPieces + 1, Unary({"$", "{", "}", "X", "x"}) \cup {<<":", "-">>, <<"$", "{", "X">>}) :
        NoTwoNames(s)}

\* Texts with variables and references next to and inside each other.
MixedTexts ==
    {s \in UpTo(TextPieces, Unary({"$", "}", "x"})
                 \cup {<<":", "-">>, <<":", ":", "-">>, <<"$", "$">>, <<"$", "{", "X">>, RefOpening,
                       RefOpening \o <<"env", ":", "X">>, RefOpening \o <<"vault", ":", "kv", "/", "a">>}) :
        NoTwoNames(s)}

Environments == {[n \in {} |-> <<>>], [n \in {"X"} |-> <<>>], [n \in {"X"} |-> <<"v">>],
                 [n \in {"X"} |-> RefOpening \o <<"env", ":", "X", "}">>]}

MCCases ==
    [source : {"dict"}, text : SecretTexts, env : {[n \in {} |-> <<>>]}]
    \cup [source : {"file"}, text : VariableTexts, env : Environments]
    \cup [source : {"file", "dict", "templated"}, text : MixedTexts, env : Environments]
=============================================================================
